---------------------------- MODULE Spec2Model ----------------------------
(***************************************************************************)
(* A model of the UserSpaceQOS qdisc composition engine: the Qdisc trait   *)
(* and its implementations (FifoQdisc, DrrQdisc, SparseQdisc,              *)
(* ClassDrrQdisc, DualFairQdisc, TcpAckFilterQdisc, RootHtbQdisc,          *)
(* MonitorQdisc), the TokenBucket and the ingestion loop of main.          *)
(*                                                                         *)
(* Conventions.                                                            *)
(*  - Time is counted in ticks of 100 microseconds (the refill threshold   *)
(*    of TokenBucket::refill), Instant::now() is the variable now. One     *)
(*    trait call reads one value of the clock.                             *)
(*  - Option<T> and Result<(), T> are sequences of length at most one:     *)
(*    <<>> is None / Ok(()), <<c>> is Some(c) / Err(c).                    *)
(*  - A qdisc is a record with a field kind; Box<dyn Qdisc> dispatch is    *)
(*    the CASE on kind in Enqueue, Peek, Dequeue and CollectDropped. Each  *)
(*    operation returns [q |-> the qdisc after the call, res |-> result].  *)
(*  - f64 token counts are exact rationals with denominator TicksPerSec.   *)
(*  - u32 ACK numbers are pairs <<hi, lo>> of 16-bit halves.               *)
(*  - A method that calls a child and goes on with what the child returned *)
(*    is split at the call: the part after it is an operator of its own    *)
(*    that takes the child's result as a parameter (SparsePeek calls       *)
(*    SparsePeeked with the result of the sparse child's peek, and so on). *)
(***************************************************************************)
EXTENDS Integers, Sequences, FiniteSets, TLC

VARIABLES
    q,        \* the qdisc tree under test (main: pipeline)
    now,      \* Instant::now(), in ticks
    nextId,   \* identity of the next PacketContext.msg to be created
    last,     \* the last trait call: [op, arg, res]
    okd,      \* ids of the contexts whose enqueue returned Ok
    errd,     \* ids of the contexts handed back in an Err
    deqd,     \* ids of the contexts returned by dequeue
    colld,    \* ids of the contexts returned by collect_dropped
    served,   \* the contexts returned by dequeue in order, where DoServe records them
    pc,       \* main: the phase of the ingestion loop
    verdicts, \* main: id |-> the verdicts issued for that message, in order
    cur,      \* main: the context under construction, <<>> when there is none
    todo      \* main: the modifiers of the chain that have not processed cur yet

\* the variables of the parts modelled on their own
parts == <<cur, todo>>

vars == <<q, now, nextId, last, okd, errd, deqd, colld, served, pc, verdicts, parts>>

-----------------------------------------------------------------------------
(* Bounds of the model *)

MaxPkts == 3
MaxTime == 1001

(* Units *)

TicksPerMs == 10
TicksPerSec == 10000
RefillThreshold == 1
Half == 32768
Word == 65536

Min(a, b) == IF a < b THEN a ELSE b
Max(a, b) == IF a > b THEN a ELSE b

RECURSIVE SeqSum(_)
SeqSum(s) == IF s = <<>> THEN 0 ELSE Head(s) + SeqSum(Tail(s))

Ids(s) == [i \in 1..Len(s) |-> s[i].id]
SeqToSet(s) == {s[i] : i \in 1..Len(s)}

-----------------------------------------------------------------------------
(* PacketContext *)

PacketContext(id, key, pkt_len, cost, queue_num, arrival_time, is_pure_ack, tcp_ack_num) ==
    [id |-> id, key |-> key, pkt_len |-> pkt_len, cost |-> cost,
     queue_num |-> queue_num, arrival_time |-> arrival_time,
     is_pure_ack |-> is_pure_ack, tcp_ack_num |-> tcp_ack_num]

\* now.saturating_duration_since(ctx.arrival_time) > max_latency
IsStale(ctx, t, max_latency) ==
    (IF t > ctx.arrival_time THEN t - ctx.arrival_time ELSE 0) > max_latency

-----------------------------------------------------------------------------
(* FifoQdisc *)

FifoQdisc_new(max_latency_ms, hard_limit) ==
    [kind |-> "fifo", queue |-> <<>>,
     max_latency |-> max_latency_ms * TicksPerMs,
     hard_limit |-> hard_limit, pending_expired |-> <<>>]

\* an enqueue that puts the new context in front of the residents
FifoEnqueueFront(f, ctx) ==
    [q |-> [f EXCEPT !.queue = <<ctx>> \o f.queue], res |-> <<>>]

FifoEnqueue(f, ctx) ==
    IF Len(f.queue) >= f.hard_limit /\ f.queue # <<>>
    THEN [q |-> [f EXCEPT !.queue = Append(Tail(f.queue), ctx)],
          res |-> <<Head(f.queue)>>]
    ELSE [q |-> [f EXCEPT !.queue = Append(f.queue, ctx)], res |-> <<>>]

\* a peek loop that pops the stale heads without keeping them
RECURSIVE FifoExpireHeadsDiscard(_, _)
FifoExpireHeadsDiscard(f, t) ==
    IF f.queue # <<>> /\ IsStale(Head(f.queue), t, f.max_latency)
    THEN FifoExpireHeadsDiscard([f EXCEPT !.queue = Tail(f.queue)], t)
    ELSE f

\* the while-let loop of peek: stale heads go to pending_expired
RECURSIVE FifoExpireHeads(_, _)
FifoExpireHeads(f, t) ==
    IF f.queue # <<>> /\ IsStale(Head(f.queue), t, f.max_latency)
    THEN FifoExpireHeads([f EXCEPT !.queue = Tail(f.queue),
                                   !.pending_expired = Append(f.pending_expired, Head(f.queue))], t)
    ELSE f

\* a peek that returns the front without looking at its age
FifoPeekNoExpiry(f, t) ==
    [q |-> f, res |-> IF f.queue = <<>> THEN <<>> ELSE <<Head(f.queue)>>]

FifoPeek(f, t) ==
    LET g == FifoExpireHeads(f, t)
    IN  [q |-> g, res |-> IF g.queue = <<>> THEN <<>> ELSE <<Head(g.queue)>>]

FifoDequeue(f, t) ==
    LET p == FifoPeek(f, t)
    IN  IF p.res = <<>>
        THEN [q |-> p.q, res |-> <<>>]
        ELSE [q |-> [p.q EXCEPT !.queue = Tail(p.q.queue)], res |-> <<Head(p.q.queue)>>]

FifoCollectDropped(f) ==
    [q |-> [f EXCEPT !.pending_expired = <<>>], res |-> f.pending_expired]

-----------------------------------------------------------------------------
(* DrrQdisc *)

EmptyMap == [x \in {} |-> 0]

MapPut(m, k, v) == [x \in DOMAIN m \cup {k} |-> IF x = k THEN v ELSE m[x]]
MapRemove(m, k) == [x \in DOMAIN m \ {k} |-> m[x]]

\* a flow created with two quanta of credit
FlowBufferTwoQuanta(quantum, group_id) ==
    [queue |-> <<>>, deficit |-> 2 * quantum, quantum |-> quantum, group_id |-> group_id]

FlowBuffer_new(quantum, group_id) ==
    [queue |-> <<>>, deficit |-> quantum, quantum |-> quantum, group_id |-> group_id]

DrrQdisc_new(max_latency_ms, hard_limit, quantum) ==
    [kind |-> "drr", flows |-> EmptyMap, active_queue |-> <<>>,
     group_flow_counts |-> EmptyMap,
     max_latency |-> max_latency_ms * TicksPerMs,
     hard_limit |-> hard_limit, pending_expired |-> <<>>, quantum |-> quantum]

\* if let Some(count) = group_flow_counts.get_mut(&group_id) { if *count > 0 { *count -= 1 } }
GroupCountDec(counts, group_id) ==
    IF group_id \in DOMAIN counts /\ counts[group_id] > 0
    THEN [counts EXCEPT ![group_id] = @ - 1]
    ELSE counts

\* the inner while-let loop of prepare_next_ready_flow over one flow's FIFO:
\* [queue |-> what stays, expired |-> expired_this_round]
RECURSIVE DrrExpireHeads(_, _, _, _)
DrrExpireHeads(queue, expired, t, max_latency) ==
    IF queue # <<>> /\ IsStale(Head(queue), t, max_latency)
    THEN DrrExpireHeads(Tail(queue), Append(expired, Head(queue)), t, max_latency)
    ELSE [queue |-> queue, expired |-> expired]

RECURSIVE PrepareNextReadyFlow(_, _)
PrepareNextReadyFlow(d, t) ==
    IF d.active_queue = <<>>
    THEN [q |-> d, res |-> FALSE]
    ELSE
      LET key == Head(d.active_queue)
          d1 == [d EXCEPT !.active_queue = Tail(d.active_queue)]
      IN  IF key \notin DOMAIN d1.flows
          THEN PrepareNextReadyFlow(d1, t)
          ELSE
            LET flow == d1.flows[key]
                sw == DrrExpireHeads(flow.queue, <<>>, t, d1.max_latency)
                pend == d1.pending_expired \o sw.expired
            IN  IF sw.queue # <<>>
                THEN IF flow.deficit < Head(sw.queue).pkt_len
                     THEN PrepareNextReadyFlow(
                            [d1 EXCEPT !.flows[key].queue = sw.queue,
                                       !.flows[key].deficit = flow.deficit + flow.quantum,
                                       !.pending_expired = pend,
                                       !.active_queue = Append(d1.active_queue, key)], t)
                     ELSE [q |-> [d1 EXCEPT !.flows[key].queue = sw.queue,
                                            !.pending_expired = pend,
                                            !.active_queue = <<key>> \o d1.active_queue],
                           res |-> TRUE]
                ELSE PrepareNextReadyFlow(
                       [d1 EXCEPT !.flows = MapRemove(d1.flows, key),
                                  !.group_flow_counts = GroupCountDec(d1.group_flow_counts, flow.group_id),
                                  !.pending_expired = pend], t)

\* an enqueue that puts a new flow at the tail of the ring
DrrEnqueueAtTail(d, ctx) ==
    LET key == ctx.key
        group_id == ctx.queue_num
    IN  IF key \in DOMAIN d.flows
        THEN LET flow == [d.flows[key] EXCEPT !.quantum = d.quantum]
             IN  IF Len(flow.queue) >= d.hard_limit /\ flow.queue # <<>>
                 THEN [q |-> [d EXCEPT !.flows[key] =
                                [flow EXCEPT !.queue = Append(Tail(flow.queue), ctx)]],
                       res |-> <<Head(flow.queue)>>]
                 ELSE [q |-> [d EXCEPT !.flows[key] =
                                [flow EXCEPT !.queue = Append(flow.queue, ctx)]],
                       res |-> <<>>]
        ELSE [q |-> [d EXCEPT
                       !.flows = MapPut(d.flows, key,
                                   [FlowBuffer_new(d.quantum, group_id) EXCEPT !.queue = <<ctx>>]),
                       !.active_queue = Append(d.active_queue, key),
                       !.group_flow_counts =
                           MapPut(d.group_flow_counts, group_id,
                                  IF group_id \in DOMAIN d.group_flow_counts
                                  THEN d.group_flow_counts[group_id] + 1 ELSE 1)],
              res |-> <<>>]

DrrEnqueue(d, ctx) ==
    LET key == ctx.key
        group_id == ctx.queue_num
    IN  IF key \in DOMAIN d.flows
        THEN LET flow == [d.flows[key] EXCEPT !.quantum = d.quantum]
             IN  IF Len(flow.queue) >= d.hard_limit /\ flow.queue # <<>>
                 THEN [q |-> [d EXCEPT !.flows[key] =
                                [flow EXCEPT !.queue = Append(Tail(flow.queue), ctx)]],
                       res |-> <<Head(flow.queue)>>]
                 ELSE [q |-> [d EXCEPT !.flows[key] =
                                [flow EXCEPT !.queue = Append(flow.queue, ctx)]],
                       res |-> <<>>]
        ELSE [q |-> [d EXCEPT
                       !.flows = MapPut(d.flows, key,
                                   [FlowBuffer_new(d.quantum, group_id) EXCEPT !.queue = <<ctx>>]),
                       !.active_queue = <<key>> \o d.active_queue,
                       !.group_flow_counts =
                           MapPut(d.group_flow_counts, group_id,
                                  IF group_id \in DOMAIN d.group_flow_counts
                                  THEN d.group_flow_counts[group_id] + 1 ELSE 1)],
              res |-> <<>>]

DrrPeek(d, t) ==
    LET p == PrepareNextReadyFlow(d, t)
    IN  IF ~p.res THEN [q |-> p.q, res |-> <<>>]
        ELSE IF p.q.active_queue = <<>> THEN [q |-> p.q, res |-> <<>>]
        ELSE LET key == Head(p.q.active_queue)
             IN  IF key \notin DOMAIN p.q.flows \/ p.q.flows[key].queue = <<>>
                 THEN [q |-> p.q, res |-> <<>>]
                 ELSE [q |-> p.q, res |-> <<Head(p.q.flows[key].queue)>>]

\* a dequeue that serves without debiting the flow's deficit
DrrDequeueNoDebit(d, t) ==
    LET p == PrepareNextReadyFlow(d, t)
    IN  IF ~p.res THEN [q |-> p.q, res |-> <<>>]
        ELSE IF p.q.active_queue = <<>> THEN [q |-> p.q, res |-> <<>>]
        ELSE
          LET key == Head(p.q.active_queue)
              d1 == [p.q EXCEPT !.active_queue = Tail(p.q.active_queue)]
          IN  IF key \notin DOMAIN d1.flows THEN [q |-> d1, res |-> <<>>]
              ELSE IF d1.flows[key].queue = <<>> THEN [q |-> d1, res |-> <<>>]
              ELSE
                LET flow == d1.flows[key]
                    ctx == Head(flow.queue)
                    rest == Tail(flow.queue)
                IN  IF rest = <<>>
                    THEN [q |-> [d1 EXCEPT !.flows = MapRemove(d1.flows, key),
                                           !.group_flow_counts =
                                               GroupCountDec(d1.group_flow_counts, flow.group_id)],
                          res |-> <<ctx>>]
                    ELSE [q |-> [d1 EXCEPT !.flows[key].queue = rest,
                                           !.flows[key].deficit = flow.deficit,
                                           !.active_queue = <<key>> \o d1.active_queue],
                          res |-> <<ctx>>]

DrrDequeue(d, t) ==
    LET p == PrepareNextReadyFlow(d, t)
    IN  IF ~p.res THEN [q |-> p.q, res |-> <<>>]
        ELSE IF p.q.active_queue = <<>> THEN [q |-> p.q, res |-> <<>>]
        ELSE
          LET key == Head(p.q.active_queue)
              d1 == [p.q EXCEPT !.active_queue = Tail(p.q.active_queue)]
          IN  IF key \notin DOMAIN d1.flows THEN [q |-> d1, res |-> <<>>]
              ELSE IF d1.flows[key].queue = <<>> THEN [q |-> d1, res |-> <<>>]
              ELSE
                LET flow == d1.flows[key]
                    ctx == Head(flow.queue)
                    rest == Tail(flow.queue)
                IN  IF rest = <<>>
                    THEN [q |-> [d1 EXCEPT !.flows = MapRemove(d1.flows, key),
                                           !.group_flow_counts =
                                               GroupCountDec(d1.group_flow_counts, flow.group_id)],
                          res |-> <<ctx>>]
                    ELSE [q |-> [d1 EXCEPT !.flows[key].queue = rest,
                                           !.flows[key].deficit = flow.deficit - ctx.pkt_len,
                                           !.active_queue = <<key>> \o d1.active_queue],
                          res |-> <<ctx>>]

DrrCollectDropped(d) ==
    [q |-> [d EXCEPT !.pending_expired = <<>>], res |-> d.pending_expired]

-----------------------------------------------------------------------------
(* TokenBucket: tokens and capacity are kept multiplied by TicksPerSec, so  *)
(* that rate * elapsed is exact for a rate in bytes per second.            *)

TokenBucket_new(rate_bytes_per_sec, burst_bytes, t) ==
    [tokens |-> burst_bytes * TicksPerSec, rate |-> rate_bytes_per_sec,
     capacity |-> burst_bytes * TicksPerSec, last_update |-> t]

\* a refill that forgets the cap at capacity
RefillUncapped(b, t) ==
    LET elapsed == t - b.last_update
    IN  IF elapsed > RefillThreshold
        THEN [b EXCEPT !.tokens = b.tokens + b.rate * elapsed, !.last_update = t]
        ELSE b

\* a refill that restarts the clock also when it credits nothing
RefillRestartsClock(b, t) ==
    LET elapsed == t - b.last_update
    IN  IF elapsed > RefillThreshold
        THEN [b EXCEPT !.tokens = Min(b.tokens + b.rate * elapsed, b.capacity),
                       !.last_update = t]
        ELSE [b EXCEPT !.last_update = t]

Refill(b, t) ==
    LET elapsed == t - b.last_update
    IN  IF elapsed > RefillThreshold
        THEN [b EXCEPT !.tokens = Min(b.tokens + b.rate * elapsed, b.capacity),
                       !.last_update = t]
        ELSE b

\* a consume that debits whether or not the tokens suffice
ConsumeOverdraw(b, amount, t) ==
    LET r == Refill(b, t)
    IN  [b |-> [r EXCEPT !.tokens = r.tokens - amount * TicksPerSec],
         res |-> r.tokens >= amount * TicksPerSec]

Consume(b, amount, t) ==
    LET r == Refill(b, t)
    IN  IF r.tokens >= amount * TicksPerSec
        THEN [b |-> [r EXCEPT !.tokens = r.tokens - amount * TicksPerSec], res |-> TRUE]
        ELSE [b |-> r, res |-> FALSE]

CanSpend(b, amount, t) ==
    LET r == Refill(b, t)
    IN  [b |-> r, res |-> r.tokens >= amount * TicksPerSec]

-----------------------------------------------------------------------------
(* u32 arithmetic of the ACK numbers: a value is <<hi, lo>>, 16 bits each *)

U32(hi, lo) == <<hi, lo>>

\* a.wrapping_sub(b)
WrappingSub(a, b) ==
    LET borrow == IF a[2] < b[2] THEN 1 ELSE 0
        lo == a[2] - b[2] + borrow * Word
        hi == (a[1] - b[1] - borrow + Word) % Word
    IN  <<hi, lo>>

\* a comparison of the plain unsigned values, blind to the rollover
NewerThanUnsigned(a, b) == a[1] > b[1] \/ (a[1] = b[1] /\ a[2] > b[2])

\* a comparison that takes an equal number for a newer one
NewerOrEqual(a, b) == WrappingSub(a, b)[1] < Half

\* (a.wrapping_sub(b) as i32) > 0
NewerThan(a, b) ==
    LET d == WrappingSub(a, b)
    IN  d[1] < Half /\ d # <<0, 0>>

-----------------------------------------------------------------------------
(* Dynamic dispatch over Box<dyn Qdisc>: defined after the implementations *)

RECURSIVE Enqueue(_, _, _), Peek(_, _), Dequeue(_, _), CollectDropped(_)

-----------------------------------------------------------------------------
(* TcpAckFilterQdisc *)

GcPeriod == 1024
GcIdleSecs == 120

TcpAckFilterQdisc_new(inner) ==
    [kind |-> "ackfilter", inner |-> inner, highest_acks |-> EmptyMap,
     dropped |-> <<>>, packet_counter |-> 0]

\* highest_acks.retain(|_, (_, last_seen)| now - last_seen < 120 s)
AckGc(acks, t) ==
    LET keep == {k \in DOMAIN acks :
                   (IF t > acks[k].last_seen THEN t - acks[k].last_seen ELSE 0)
                       < GcIdleSecs * TicksPerSec}
    IN  [k \in keep |-> acks[k]]

\* the tail of enqueue: r is what inner.enqueue returned
AckFilterEnqueued(a, counter, acks, r) ==
    [q |-> [a EXCEPT !.packet_counter = counter, !.highest_acks = acks, !.inner = r.q],
     res |-> r.res]

AckFilterEnqueue(a, ctx, t) ==
    LET counter == a.packet_counter + 1
        acks1 == IF counter % GcPeriod = 0 THEN AckGc(a.highest_acks, t) ELSE a.highest_acks
        acks2 == IF ctx.is_pure_ack
                 THEN LET old == IF ctx.key \in DOMAIN acks1
                                 THEN acks1[ctx.key].ack ELSE ctx.tcp_ack_num
                          new == IF NewerThan(ctx.tcp_ack_num, old)
                                 THEN ctx.tcp_ack_num ELSE old
                      IN  MapPut(acks1, ctx.key, [ack |-> new, last_seen |-> t])
                 ELSE acks1
    IN  AckFilterEnqueued(a, counter, acks2, Enqueue(a.inner, ctx, t))

\* peek hands on what inner.peek returned (r)
AckFilterPeeked(a, r) == [q |-> [a EXCEPT !.inner = r.q], res |-> r.res]

AckFilterPeek(a, t) == AckFilterPeeked(a, Peek(a.inner, t))

\* one turn of the while-let loop of dequeue: r is what inner.dequeue returned
RECURSIVE AckFilterDequeue(_, _)

\* a loop that also discards every context that is not a pure ACK
AckFilterDequeuedAcksOnly(a, r, t) ==
    LET a1 == [a EXCEPT !.inner = r.q]
    IN  IF r.res = <<>>
        THEN [q |-> a1, res |-> <<>>]
        ELSE LET ctx == r.res[1]
             IN  IF ~ctx.is_pure_ack
                 THEN AckFilterDequeue([a1 EXCEPT !.dropped = Append(a1.dropped, ctx)], t)
                 ELSE [q |-> a1, res |-> <<ctx>>]

AckFilterDequeued(a, r, t) ==
    LET a1 == [a EXCEPT !.inner = r.q]
    IN  IF r.res = <<>>
        THEN [q |-> a1, res |-> <<>>]
        ELSE LET ctx == r.res[1]
             IN  IF /\ ctx.is_pure_ack
                    /\ ctx.key \in DOMAIN a1.highest_acks
                    /\ NewerThan(a1.highest_acks[ctx.key].ack, ctx.tcp_ack_num)
                 THEN AckFilterDequeue([a1 EXCEPT !.dropped = Append(a1.dropped, ctx)], t)
                 ELSE [q |-> a1, res |-> <<ctx>>]

AckFilterDequeue(a, t) == AckFilterDequeued(a, Dequeue(a.inner, t), t)

AckFilterCollected(a, r) ==
    [q |-> [a EXCEPT !.dropped = <<>>, !.inner = r.q], res |-> a.dropped \o r.res]

AckFilterCollectDropped(a) == AckFilterCollected(a, CollectDropped(a.inner))

-----------------------------------------------------------------------------
(* SparseQdisc *)

SparseQdisc_new(sparse_qdisc, bulk_qdisc) ==
    [kind |-> "sparse", sparse_qdisc |-> sparse_qdisc, bulk_qdisc |-> bulk_qdisc,
     flow_counts |-> EmptyMap]

\* get_mut(key): if *count > 0 { *count -= 1 }; if *count == 0 { remove(key) }
FlowCountDec(counts, key) ==
    IF key \in DOMAIN counts
    THEN LET n == IF counts[key] > 0 THEN counts[key] - 1 ELSE counts[key]
         IN  IF n = 0 THEN MapRemove(counts, key) ELSE [counts EXCEPT ![key] = n]
    ELSE counts

RECURSIVE FlowCountDecAll(_, _)
FlowCountDecAll(counts, drops) ==
    IF drops = <<>> THEN counts
    ELSE FlowCountDecAll(FlowCountDec(counts, Head(drops).key), Tail(drops))

\* r is what sparse_qdisc.enqueue returned
SparseEnqueuedSparse(s, key, r) ==
    IF r.res = <<>>
    THEN [q |-> [s EXCEPT !.sparse_qdisc = r.q,
                          !.flow_counts = MapPut(s.flow_counts, key, 1)],
          res |-> <<>>]
    ELSE [q |-> [s EXCEPT !.sparse_qdisc = r.q], res |-> r.res]

\* r is what bulk_qdisc.enqueue returned
SparseEnqueuedBulk(s, key, current_count, r) ==
    IF r.res = <<>>
    THEN [q |-> [s EXCEPT !.bulk_qdisc = r.q,
                          !.flow_counts[key] = current_count + 1],
          res |-> <<>>]
    ELSE [q |-> [s EXCEPT !.bulk_qdisc = r.q], res |-> r.res]

SparseEnqueue(s, ctx, t) ==
    LET key == ctx.key
        current_count == IF key \in DOMAIN s.flow_counts THEN s.flow_counts[key] ELSE 0
    IN  IF current_count = 0
        THEN SparseEnqueuedSparse(s, key, Enqueue(s.sparse_qdisc, ctx, t))
        ELSE SparseEnqueuedBulk(s, key, current_count, Enqueue(s.bulk_qdisc, ctx, t))

\* a, b are what sparse_qdisc.peek and bulk_qdisc.peek returned
SparsePeekedBulk(s, a, b) ==
    [q |-> [s EXCEPT !.sparse_qdisc = a.q, !.bulk_qdisc = b.q], res |-> b.res]

SparsePeeked(s, a, t) ==
    IF a.res # <<>>
    THEN [q |-> [s EXCEPT !.sparse_qdisc = a.q], res |-> a.res]
    ELSE SparsePeekedBulk(s, a, Peek(s.bulk_qdisc, t))

SparsePeek(s, t) == SparsePeeked(s, Peek(s.sparse_qdisc, t), t)

\* a, b are what sparse_qdisc.dequeue and bulk_qdisc.dequeue returned
SparseDequeuedBulk(s, a, b) ==
    IF b.res # <<>>
    THEN [q |-> [s EXCEPT !.sparse_qdisc = a.q, !.bulk_qdisc = b.q,
                          !.flow_counts = FlowCountDec(s.flow_counts, b.res[1].key)],
          res |-> b.res]
    ELSE [q |-> [s EXCEPT !.sparse_qdisc = a.q, !.bulk_qdisc = b.q], res |-> <<>>]

SparseDequeued(s, a, t) ==
    IF a.res # <<>>
    THEN [q |-> [s EXCEPT !.sparse_qdisc = a.q,
                          !.flow_counts = FlowCountDec(s.flow_counts, a.res[1].key)],
          res |-> a.res]
    ELSE SparseDequeuedBulk(s, a, Dequeue(s.bulk_qdisc, t))

SparseDequeue(s, t) == SparseDequeued(s, Dequeue(s.sparse_qdisc, t), t)

SparseCollected(s, a, b) ==
    LET drops == a.res \o b.res
    IN  [q |-> [s EXCEPT !.sparse_qdisc = a.q, !.bulk_qdisc = b.q,
                         !.flow_counts = FlowCountDecAll(s.flow_counts, drops)],
         res |-> drops]

SparseCollectDropped(s) ==
    SparseCollected(s, CollectDropped(s.sparse_qdisc), CollectDropped(s.bulk_qdisc))

-----------------------------------------------------------------------------
(* ClassDrrQdisc. classifier is the closure as a function of queue_num to  *)
(* <<class_id, quantum>>; a queue_num outside its domain is the panic      *)
(* branch. inner_factory is the qdisc the factory closure builds.          *)

ClassDrrQdisc_new(classifier, inner_factory) ==
    [kind |-> "classdrr", classes |-> EmptyMap, active_classes |-> <<>>,
     classifier |-> classifier, inner_factory |-> inner_factory]

\* one turn of the loop of prepare_next_ready_class, given what the peek of
\* the class at the front of the ring returned
RECURSIVE PrepareNextReadyClass(_, _)
PrepareClassPeeked(c1, class_id, p, t) ==
    LET class == c1.classes[class_id]
        c2 == [c1 EXCEPT !.classes[class_id].inner_qdisc = p.q]
    IN  IF p.res # <<>>
        THEN IF class.deficit < p.res[1].cost
             THEN PrepareNextReadyClass(
                    [c2 EXCEPT !.classes[class_id].deficit = class.deficit + class.quantum,
                               !.active_classes = Append(c2.active_classes, class_id)], t)
             ELSE [q |-> [c2 EXCEPT !.active_classes = <<class_id>> \o c2.active_classes],
                   res |-> TRUE]
        ELSE PrepareNextReadyClass(c2, t)

PrepareNextReadyClass(c, t) ==
    IF c.active_classes = <<>>
    THEN [q |-> c, res |-> FALSE]
    ELSE
      LET class_id == Head(c.active_classes)
          c1 == [c EXCEPT !.active_classes = Tail(c.active_classes)]
      IN  IF class_id \notin DOMAIN c1.classes
          THEN PrepareNextReadyClass(c1, t)
          ELSE PrepareClassPeeked(c1, class_id,
                                  Peek(c1.classes[class_id].inner_qdisc, t), t)

\* the tail of enqueue: class is the entry of the class (was_empty tells
\* whether its inner qdisc peeked empty), r what the inner enqueue returned
ClassDrrEnqueued(c, class_id, class, was_empty, r) ==
    LET c1 == [c EXCEPT !.classes = MapPut(c.classes, class_id,
                                           [class EXCEPT !.inner_qdisc = r.q])]
    IN  IF r.res = <<>> /\ was_empty
        THEN [q |-> [c1 EXCEPT !.active_classes = <<class_id>> \o c1.active_classes],
              res |-> r.res]
        ELSE [q |-> c1, res |-> r.res]

ClassDrrEnqueueInto(c, class_id, class, was_empty, ctx, t) ==
    ClassDrrEnqueued(c, class_id, class, was_empty, Enqueue(class.inner_qdisc, ctx, t))

\* the class exists: p is the peek of its inner qdisc before the enqueue
ClassDrrEnqueueOccupied(c, class_id, class_quantum, p, ctx, t) ==
    ClassDrrEnqueueInto(c, class_id,
                        [c.classes[class_id] EXCEPT !.inner_qdisc = p.q,
                                                    !.quantum = class_quantum],
                        p.res = <<>>, ctx, t)

ClassDrrEnqueue(c, ctx, t) ==
    LET cls == c.classifier[ctx.queue_num]
        class_id == cls[1]
        class_quantum == cls[2]
    IN  IF class_id \in DOMAIN c.classes
        THEN ClassDrrEnqueueOccupied(c, class_id, class_quantum,
                                     Peek(c.classes[class_id].inner_qdisc, t), ctx, t)
        ELSE ClassDrrEnqueueInto(c, class_id,
                                 [inner_qdisc |-> c.inner_factory, deficit |-> class_quantum,
                                  quantum |-> class_quantum],
                                 TRUE, ctx, t)

ClassDrrPeeked(c, class_id, r) ==
    [q |-> [c EXCEPT !.classes[class_id].inner_qdisc = r.q], res |-> r.res]

\* peek after prepare_next_ready_class returned p
ClassDrrPeekReady(p, t) ==
    IF ~p.res THEN [q |-> p.q, res |-> <<>>]
    ELSE IF p.q.active_classes = <<>> THEN [q |-> p.q, res |-> <<>>]
    ELSE LET class_id == Head(p.q.active_classes)
         IN  IF class_id \notin DOMAIN p.q.classes
             THEN [q |-> p.q, res |-> <<>>]
             ELSE ClassDrrPeeked(p.q, class_id,
                                 Peek(p.q.classes[class_id].inner_qdisc, t))

ClassDrrPeek(c, t) == ClassDrrPeekReady(PrepareNextReadyClass(c, t), t)

\* a class that serves without paying
ClassDrrServedFree(c1, class_id, r, pk) ==
    LET c2 == [c1 EXCEPT !.classes[class_id].inner_qdisc = pk.q]
    IN  IF pk.res # <<>>
        THEN [q |-> [c2 EXCEPT !.active_classes = <<class_id>> \o c2.active_classes],
              res |-> r.res]
        ELSE [q |-> c2, res |-> r.res]

\* the class served a context (r.res): pk is the peek that follows
ClassDrrServed(c1, class_id, r, pk) ==
    LET c2 == [c1 EXCEPT !.classes[class_id].inner_qdisc = pk.q,
                         !.classes[class_id].deficit =
                             c1.classes[class_id].deficit - r.res[1].cost]
    IN  IF pk.res # <<>>
        THEN [q |-> [c2 EXCEPT !.active_classes = <<class_id>> \o c2.active_classes],
              res |-> r.res]
        ELSE [q |-> c2, res |-> r.res]

\* r is what the dequeue of the class's inner qdisc returned
ClassDrrDequeued(c1, class_id, r, t) ==
    IF r.res # <<>>
    THEN ClassDrrServed(c1, class_id, r, Peek(r.q, t))
    ELSE [q |-> [c1 EXCEPT !.classes[class_id].inner_qdisc = r.q], res |-> <<>>]

\* dequeue after prepare_next_ready_class returned p
ClassDrrDequeueReady(p, t) ==
    IF ~p.res THEN [q |-> p.q, res |-> <<>>]
    ELSE IF p.q.active_classes = <<>> THEN [q |-> p.q, res |-> <<>>]
    ELSE
      LET class_id == Head(p.q.active_classes)
          c1 == [p.q EXCEPT !.active_classes = Tail(p.q.active_classes)]
      IN  IF class_id \notin DOMAIN c1.classes THEN [q |-> c1, res |-> <<>>]
          ELSE ClassDrrDequeued(c1, class_id,
                                Dequeue(c1.classes[class_id].inner_qdisc, t), t)

ClassDrrDequeue(c, t) == ClassDrrDequeueReady(PrepareNextReadyClass(c, t), t)

\* for class in classes.values_mut(): the classes are visited by ascending id
RECURSIVE ClassDrrCollectFrom(_, _, _)
ClassDrrCollected(c, id, ids, drops, r) ==
    ClassDrrCollectFrom([c EXCEPT !.classes[id].inner_qdisc = r.q],
                        ids \ {id}, drops \o r.res)

ClassDrrCollectFrom(c, ids, drops) ==
    IF ids = {} THEN [q |-> c, res |-> drops]
    ELSE LET id == CHOOSE i \in ids : \A j \in ids : i <= j
         IN  ClassDrrCollected(c, id, ids, drops,
                               CollectDropped(c.classes[id].inner_qdisc))

ClassDrrCollectDropped(c) == ClassDrrCollectFrom(c, DOMAIN c.classes, <<>>)

-----------------------------------------------------------------------------
(* DualFairQdisc. classifier is the closure as a function of queue_num to  *)
(* BOOLEAN (TRUE: lane A); a queue_num outside its domain is the panic.    *)

DualFairQdisc_new(q_a, q_b, quantum, classifier) ==
    [kind |-> "dualfair", q_a |-> q_a, q_b |-> q_b, classifier |-> classifier,
     deficit_a |-> 0, deficit_b |-> 0, quantum |-> quantum, turn_a |-> TRUE]

\* the loop of prepare_next: returns the qdisc at the moment a side is ready;
\* p is what the peek of the side whose turn it is returned
RECURSIVE DualFairLoop(_, _)
DualFairTurnA(d, p, t) ==
    LET d1 == [d EXCEPT !.q_a = p.q]
    IN  IF p.res # <<>>
        THEN IF d1.deficit_a >= p.res[1].cost
             THEN d1
             ELSE DualFairLoop([d1 EXCEPT !.deficit_a = d1.deficit_a + d1.quantum,
                                          !.turn_a = FALSE], t)
        ELSE DualFairLoop([d1 EXCEPT !.deficit_a = 0, !.turn_a = FALSE], t)

DualFairTurnB(d, p, t) ==
    LET d1 == [d EXCEPT !.q_b = p.q]
    IN  IF p.res # <<>>
        THEN IF d1.deficit_b >= p.res[1].cost
             THEN d1
             ELSE DualFairLoop([d1 EXCEPT !.deficit_b = d1.deficit_b + d1.quantum,
                                          !.turn_a = TRUE], t)
        ELSE DualFairLoop([d1 EXCEPT !.deficit_b = 0, !.turn_a = TRUE], t)

DualFairLoop(d, t) ==
    IF d.turn_a
    THEN DualFairTurnA(d, Peek(d.q_a, t), t)
    ELSE DualFairTurnB(d, Peek(d.q_b, t), t)

\* has_a is false: pb is what q_b.peek returned
PrepareNextPeekedB(d1, pb, t) ==
    LET d2 == [d1 EXCEPT !.q_b = pb.q]
    IN  IF pb.res # <<>>
        THEN [q |-> DualFairLoop(d2, t), res |-> TRUE]
        ELSE [q |-> [d2 EXCEPT !.deficit_a = 0, !.deficit_b = 0], res |-> FALSE]

\* pa is what q_a.peek returned
PrepareNextPeekedA(d, pa, t) ==
    LET d1 == [d EXCEPT !.q_a = pa.q]
    IN  IF pa.res # <<>>
        THEN [q |-> DualFairLoop(d1, t), res |-> TRUE]
        ELSE PrepareNextPeekedB(d1, Peek(d1.q_b, t), t)

PrepareNext(d, t) == PrepareNextPeekedA(d, Peek(d.q_a, t), t)

DualFairOnA(d, r) == [q |-> [d EXCEPT !.q_a = r.q], res |-> r.res]
DualFairOnB(d, r) == [q |-> [d EXCEPT !.q_b = r.q], res |-> r.res]

DualFairEnqueue(d, ctx, t) ==
    IF d.classifier[ctx.queue_num]
    THEN DualFairOnA(d, Enqueue(d.q_a, ctx, t))
    ELSE DualFairOnB(d, Enqueue(d.q_b, ctx, t))

\* a peek that passes the turn to the other lane once it has its answer
DualFairPeekPassTurn(p, t) ==
    IF ~p.res THEN [q |-> p.q, res |-> <<>>]
    ELSE IF p.q.turn_a
         THEN DualFairOnA([p.q EXCEPT !.turn_a = FALSE], Peek(p.q.q_a, t))
         ELSE DualFairOnB([p.q EXCEPT !.turn_a = TRUE], Peek(p.q.q_b, t))

\* peek after prepare_next returned p
DualFairPeekReady(p, t) ==
    IF ~p.res THEN [q |-> p.q, res |-> <<>>]
    ELSE IF p.q.turn_a
         THEN DualFairOnA(p.q, Peek(p.q.q_a, t))
         ELSE DualFairOnB(p.q, Peek(p.q.q_b, t))

DualFairPeek(d, t) == DualFairPeekReady(PrepareNext(d, t), t)

\* a dequeue of lane A that does not debit deficit_a
DualFairDequeuedAFree(d, r) == [q |-> [d EXCEPT !.q_a = r.q], res |-> r.res]

\* a dequeue of lane B that does not debit deficit_b
DualFairDequeuedBFree(d, r) == [q |-> [d EXCEPT !.q_b = r.q], res |-> r.res]

\* r is what the dequeue of the side whose turn it is returned
DualFairDequeuedA(d, r) ==
    IF r.res = <<>>
    THEN [q |-> [d EXCEPT !.q_a = r.q], res |-> <<>>]
    ELSE [q |-> [d EXCEPT !.q_a = r.q, !.deficit_a = d.deficit_a - r.res[1].cost],
          res |-> r.res]

DualFairDequeuedB(d, r) ==
    IF r.res = <<>>
    THEN [q |-> [d EXCEPT !.q_b = r.q], res |-> <<>>]
    ELSE [q |-> [d EXCEPT !.q_b = r.q, !.deficit_b = d.deficit_b - r.res[1].cost],
          res |-> r.res]

\* dequeue after prepare_next returned p
DualFairDequeueReady(p, t) ==
    IF ~p.res THEN [q |-> p.q, res |-> <<>>]
    ELSE IF p.q.turn_a
         THEN DualFairDequeuedA(p.q, Dequeue(p.q.q_a, t))
         ELSE DualFairDequeuedB(p.q, Dequeue(p.q.q_b, t))

DualFairDequeue(d, t) == DualFairDequeueReady(PrepareNext(d, t), t)

DualFairCollected(d, a, b) ==
    [q |-> [d EXCEPT !.q_a = a.q, !.q_b = b.q], res |-> a.res \o b.res]

DualFairCollectDropped(d) ==
    DualFairCollected(d, CollectDropped(d.q_a), CollectDropped(d.q_b))

-----------------------------------------------------------------------------
(* RootHtbQdisc. classifier is the set of queue_num the closure sends to   *)
(* the high lane.                                                          *)

RootHtbQdisc_new(high_queue, default_queue, global_bucket, high_bucket, reserved_bytes, classifier) ==
    [kind |-> "roothtb", high_queue |-> high_queue, default_queue |-> default_queue,
     global_bucket |-> global_bucket, high_bucket |-> high_bucket,
     reserved_bytes |-> reserved_bytes, classifier |-> classifier]

\* if let Some(ctx) = high_queue.peek() { high_bucket.can_spend(ctx.cost) && global_bucket.can_spend(ctx.cost) }
\* p is what high_queue.peek returned
HtbGateHighPeeked(r, p, t) ==
    LET r1 == [r EXCEPT !.high_queue = p.q]
    IN  IF p.res = <<>>
        THEN [q |-> r1, ok |-> FALSE, head |-> <<>>]
        ELSE LET hb == CanSpend(r1.high_bucket, p.res[1].cost, t)
                 r2 == [r1 EXCEPT !.high_bucket = hb.b]
             IN  IF ~hb.res
                 THEN [q |-> r2, ok |-> FALSE, head |-> p.res]
                 ELSE LET gb == CanSpend(r2.global_bucket, p.res[1].cost, t)
                      IN  [q |-> [r2 EXCEPT !.global_bucket = gb.b], ok |-> gb.res,
                           head |-> p.res]

HtbGateHigh(r, t) == HtbGateHighPeeked(r, Peek(r.high_queue, t), t)

\* if let Some(ctx) = default_queue.peek() { global_bucket.can_spend(ctx.cost + reserved_bytes) }
\* p is what default_queue.peek returned
HtbGateDefaultPeeked(r, p, t) ==
    LET r1 == [r EXCEPT !.default_queue = p.q]
    IN  IF p.res = <<>>
        THEN [q |-> r1, ok |-> FALSE, head |-> <<>>]
        ELSE LET gb == CanSpend(r1.global_bucket, p.res[1].cost + r1.reserved_bytes, t)
             IN  [q |-> [r1 EXCEPT !.global_bucket = gb.b], ok |-> gb.res, head |-> p.res]

HtbGateDefault(r, t) == HtbGateDefaultPeeked(r, Peek(r.default_queue, t), t)

RootHtbEnqueuedHigh(r, e) == [q |-> [r EXCEPT !.high_queue = e.q], res |-> e.res]
RootHtbEnqueuedDefault(r, e) == [q |-> [r EXCEPT !.default_queue = e.q], res |-> e.res]

RootHtbEnqueue(r, ctx, t) ==
    IF ctx.queue_num \in r.classifier
    THEN RootHtbEnqueuedHigh(r, Enqueue(r.high_queue, ctx, t))
    ELSE RootHtbEnqueuedDefault(r, Enqueue(r.default_queue, ctx, t))

\* the default-lane half of peek: g is the gate of the default lane
RootHtbPeekDefault(g) == [q |-> g.q, res |-> IF g.ok THEN g.head ELSE <<>>]

\* h is the gate of the high lane
RootHtbPeekGated(h, t) ==
    IF h.ok
    THEN [q |-> h.q, res |-> h.head]
    ELSE RootHtbPeekDefault(HtbGateDefault(h.q, t))

RootHtbPeek(r, t) == RootHtbPeekGated(HtbGateHigh(r, t), t)

\* the default lane passed its gate: d is what default_queue.dequeue returned
HtbDefaultDequeued(r, d, t) ==
    LET r1 == [r EXCEPT !.default_queue = d.q]
    IN  IF d.res = <<>>
        THEN [q |-> r1, res |-> <<>>]
        ELSE LET gb == Consume(r1.global_bucket, d.res[1].cost, t)
             IN  [q |-> [r1 EXCEPT !.global_bucket = gb.b], res |-> d.res]

HtbDequeueDefaultGated(g, t) ==
    IF ~g.ok
    THEN [q |-> g.q, res |-> <<>>]
    ELSE HtbDefaultDequeued(g.q, Dequeue(g.q.default_queue, t), t)

\* the default-lane half of dequeue
HtbDequeueDefault(r, t) == HtbDequeueDefaultGated(HtbGateDefault(r, t), t)

\* the high lane passed its gate: d is what high_queue.dequeue returned
HtbHighDequeued(r, d, t) ==
    LET r1 == [r EXCEPT !.high_queue = d.q]
    IN  IF d.res = <<>>
        THEN HtbDequeueDefault(r1, t)
        ELSE LET hb == Consume(r1.high_bucket, d.res[1].cost, t)
                 gb == Consume(r1.global_bucket, d.res[1].cost, t)
             IN  [q |-> [r1 EXCEPT !.high_bucket = hb.b, !.global_bucket = gb.b],
                  res |-> d.res]

RootHtbDequeueGated(h, t) ==
    IF ~h.ok
    THEN HtbDequeueDefault(h.q, t)
    ELSE HtbHighDequeued(h.q, Dequeue(h.q.high_queue, t), t)

RootHtbDequeue(r, t) == RootHtbDequeueGated(HtbGateHigh(r, t), t)

RootHtbCollected(r, h, d) ==
    [q |-> [r EXCEPT !.high_queue = h.q, !.default_queue = d.q], res |-> h.res \o d.res]

RootHtbCollectDropped(r) ==
    RootHtbCollected(r, CollectDropped(r.high_queue), CollectDropped(r.default_queue))

-----------------------------------------------------------------------------
(* MonitorQdisc *)

QueueStats_default ==
    [in_pkts |-> 0, drop_pkts |-> 0, out_pkts |-> 0, out_bytes |-> 0,
     backlog_pkts |-> 0, backlog_bytes |-> 0]

MonitorQdisc_new(inner, t) ==
    [kind |-> "monitor", inner |-> inner, stats |-> EmptyMap, last_report |-> t]

\* stats.entry(queue_num).or_insert_with(QueueStats::default)
StatOf(stats, queue_num) ==
    IF queue_num \in DOMAIN stats THEN stats[queue_num] ELSE QueueStats_default

\* the accounting of one surfaced drop: drop_pkts += 1, backlog -= (1, cost)
RECURSIVE AccountDrops(_, _)
AccountDrops(stats, drops) ==
    IF drops = <<>> THEN stats
    ELSE LET ctx == Head(drops)
             st == StatOf(stats, ctx.queue_num)
         IN  AccountDrops(
               MapPut(stats, ctx.queue_num,
                      [st EXCEPT !.drop_pkts = st.drop_pkts + 1,
                                 !.backlog_pkts = st.backlog_pkts - 1,
                                 !.backlog_bytes = st.backlog_bytes - ctx.cost]),
               Tail(drops))

\* the vector collected from inner (r.res) is consumed by the for loop and
\* not kept
FlushCollected(m, r) ==
    [m EXCEPT !.inner = r.q, !.stats = AccountDrops(m.stats, r.res)]

FlushInternalDrops(m) == FlushCollected(m, CollectDropped(m.inner))

CheckAndReport(m, t) ==
    IF t - m.last_report >= TicksPerSec
    THEN [m EXCEPT !.stats = [n \in DOMAIN m.stats |->
                                [m.stats[n] EXCEPT !.in_pkts = 0, !.drop_pkts = 0,
                                                   !.out_pkts = 0, !.out_bytes = 0]],
                   !.last_report = t]
    ELSE m

\* r is what inner.enqueue returned
MonitorEnqueued(m, ctx, r, t) ==
    LET q_num == ctx.queue_num
        st == StatOf(m.stats, q_num)
        st1 == IF r.res = <<>>
               THEN [st EXCEPT !.in_pkts = st.in_pkts + 1,
                               !.backlog_pkts = st.backlog_pkts + 1,
                               !.backlog_bytes = st.backlog_bytes + ctx.cost]
               ELSE [st EXCEPT !.drop_pkts = st.drop_pkts + 1]
        m1 == [m EXCEPT !.inner = r.q, !.stats = MapPut(m.stats, q_num, st1)]
    IN  [q |-> CheckAndReport(FlushInternalDrops(m1), t), res |-> r.res]

MonitorEnqueue(m, ctx, t) == MonitorEnqueued(m, ctx, Enqueue(m.inner, ctx, t), t)

MonitorPeeked(m, r) == [q |-> [m EXCEPT !.inner = r.q], res |-> r.res]

MonitorPeek(m, t) == MonitorPeeked(m, Peek(m.inner, t))

\* r is what inner.dequeue returned
MonitorDequeued(m, r, t) ==
    LET m1 == IF r.res = <<>>
              THEN [m EXCEPT !.inner = r.q]
              ELSE LET ctx == r.res[1]
                       st == StatOf(m.stats, ctx.queue_num)
                   IN  [m EXCEPT !.inner = r.q,
                                 !.stats = MapPut(m.stats, ctx.queue_num,
                                     [st EXCEPT !.out_pkts = st.out_pkts + 1,
                                                !.out_bytes = st.out_bytes + ctx.cost,
                                                !.backlog_pkts = st.backlog_pkts - 1,
                                                !.backlog_bytes = st.backlog_bytes - ctx.cost])]
    IN  [q |-> CheckAndReport(FlushInternalDrops(m1), t), res |-> r.res]

MonitorDequeue(m, t) == MonitorDequeued(m, Dequeue(m.inner, t), t)

MonitorCollected(m, r) ==
    [q |-> [m EXCEPT !.inner = r.q, !.stats = AccountDrops(m.stats, r.res)],
     res |-> r.res]

MonitorCollectDropped(m) == MonitorCollected(m, CollectDropped(m.inner))

-----------------------------------------------------------------------------
(* The Qdisc trait: dispatch on the implementation *)

Enqueue(qd, ctx, t) ==
    CASE qd.kind = "fifo" -> FifoEnqueue(qd, ctx)
      [] qd.kind = "drr" -> DrrEnqueue(qd, ctx)
      [] qd.kind = "ackfilter" -> AckFilterEnqueue(qd, ctx, t)
      [] qd.kind = "sparse" -> SparseEnqueue(qd, ctx, t)
      [] qd.kind = "classdrr" -> ClassDrrEnqueue(qd, ctx, t)
      [] qd.kind = "dualfair" -> DualFairEnqueue(qd, ctx, t)
      [] qd.kind = "roothtb" -> RootHtbEnqueue(qd, ctx, t)
      [] qd.kind = "monitor" -> MonitorEnqueue(qd, ctx, t)

Peek(qd, t) ==
    CASE qd.kind = "fifo" -> FifoPeek(qd, t)
      [] qd.kind = "drr" -> DrrPeek(qd, t)
      [] qd.kind = "ackfilter" -> AckFilterPeek(qd, t)
      [] qd.kind = "sparse" -> SparsePeek(qd, t)
      [] qd.kind = "classdrr" -> ClassDrrPeek(qd, t)
      [] qd.kind = "dualfair" -> DualFairPeek(qd, t)
      [] qd.kind = "roothtb" -> RootHtbPeek(qd, t)
      [] qd.kind = "monitor" -> MonitorPeek(qd, t)

Dequeue(qd, t) ==
    CASE qd.kind = "fifo" -> FifoDequeue(qd, t)
      [] qd.kind = "drr" -> DrrDequeue(qd, t)
      [] qd.kind = "ackfilter" -> AckFilterDequeue(qd, t)
      [] qd.kind = "sparse" -> SparseDequeue(qd, t)
      [] qd.kind = "classdrr" -> ClassDrrDequeue(qd, t)
      [] qd.kind = "dualfair" -> DualFairDequeue(qd, t)
      [] qd.kind = "roothtb" -> RootHtbDequeue(qd, t)
      [] qd.kind = "monitor" -> MonitorDequeue(qd, t)

CollectDropped(qd) ==
    CASE qd.kind = "fifo" -> FifoCollectDropped(qd)
      [] qd.kind = "drr" -> DrrCollectDropped(qd)
      [] qd.kind = "ackfilter" -> AckFilterCollectDropped(qd)
      [] qd.kind = "sparse" -> SparseCollectDropped(qd)
      [] qd.kind = "classdrr" -> ClassDrrCollectDropped(qd)
      [] qd.kind = "dualfair" -> DualFairCollectDropped(qd)
      [] qd.kind = "roothtb" -> RootHtbCollectDropped(qd)
      [] qd.kind = "monitor" -> MonitorCollectDropped(qd)

-----------------------------------------------------------------------------
(* What a qdisc holds: the contexts in its queues and pending-drop buffers *)

RECURSIVE Residents(_), DrrFlowResidents(_, _), ClassResidents(_, _)

DrrFlowResidents(flows, keys) ==
    IF keys = {} THEN <<>>
    ELSE LET k == CHOOSE i \in keys : \A j \in keys : i <= j
         IN  flows[k].queue \o DrrFlowResidents(flows, keys \ {k})

ClassResidents(classes, ids) ==
    IF ids = {} THEN <<>>
    ELSE LET k == CHOOSE i \in ids : \A j \in ids : i <= j
         IN  Residents(classes[k].inner_qdisc) \o ClassResidents(classes, ids \ {k})

Residents(qd) ==
    CASE qd.kind = "fifo" -> qd.queue \o qd.pending_expired
      [] qd.kind = "drr" -> DrrFlowResidents(qd.flows, DOMAIN qd.flows) \o qd.pending_expired
      [] qd.kind = "ackfilter" -> qd.dropped \o Residents(qd.inner)
      [] qd.kind = "sparse" -> Residents(qd.sparse_qdisc) \o Residents(qd.bulk_qdisc)
      [] qd.kind = "classdrr" -> ClassResidents(qd.classes, DOMAIN qd.classes)
      [] qd.kind = "dualfair" -> Residents(qd.q_a) \o Residents(qd.q_b)
      [] qd.kind = "roothtb" -> Residents(qd.high_queue) \o Residents(qd.default_queue)
      [] qd.kind = "monitor" -> Residents(qd.inner)

ResidentIds(qd) == SeqToSet(Ids(Residents(qd)))

\* enqueue(ctx) reaches a panic!() branch of a classifier closure
RECURSIVE Panics(_, _)
Panics(qd, ctx) ==
    CASE qd.kind = "fifo" -> FALSE
      [] qd.kind = "drr" -> FALSE
      [] qd.kind = "ackfilter" -> Panics(qd.inner, ctx)
      [] qd.kind = "sparse" ->
            IF ctx.key \in DOMAIN qd.flow_counts /\ qd.flow_counts[ctx.key] # 0
            THEN Panics(qd.bulk_qdisc, ctx) ELSE Panics(qd.sparse_qdisc, ctx)
      [] qd.kind = "classdrr" ->
            \/ ctx.queue_num \notin DOMAIN qd.classifier
            \/ Panics(qd.inner_factory, ctx)
      [] qd.kind = "dualfair" ->
            \/ ctx.queue_num \notin DOMAIN qd.classifier
            \/ IF qd.classifier[ctx.queue_num]
               THEN Panics(qd.q_a, ctx) ELSE Panics(qd.q_b, ctx)
      [] qd.kind = "roothtb" ->
            IF ctx.queue_num \in qd.classifier
            THEN Panics(qd.high_queue, ctx) ELSE Panics(qd.default_queue, ctx)
      [] qd.kind = "monitor" -> Panics(qd.inner, ctx)

-----------------------------------------------------------------------------
(* The qdisc tree of main, with the leaf limit, the rates and the bursts   *)
(* as parameters                                                           *)

BulkClassifier ==
    [n \in {0, 1, 4, 5} |-> IF n \in {0, 4} THEN <<0, 1500>> ELSE <<1, 15000>>]

VipClassifier == [n \in {2, 3} |-> n = 2]

\* a root classifier that takes queue 3 for default traffic
RootClassifierOnlyTwo == {2}

RootClassifier == {2, 3}

DefaultQdisc(limit) ==
    SparseQdisc_new(
        FifoQdisc_new(10, limit),
        TcpAckFilterQdisc_new(
            ClassDrrQdisc_new(BulkClassifier, DrrQdisc_new(100, limit, 1500))))

LongLeaf(limit) ==
    SparseQdisc_new(FifoQdisc_new(10, limit),
                    TcpAckFilterQdisc_new(DrrQdisc_new(100, limit, 1500)))

HighQdisc(limit) ==
    DualFairQdisc_new(FifoQdisc_new(10, limit), LongLeaf(limit), 1500, VipClassifier)

RootHtb(limit, global_rate, global_burst, high_rate, high_burst, t) ==
    RootHtbQdisc_new(HighQdisc(limit), DefaultQdisc(limit),
                     TokenBucket_new(global_rate, global_burst, t),
                     TokenBucket_new(high_rate, high_burst, t),
                     high_burst, RootClassifier)

Pipeline(limit, global_rate, global_burst, high_rate, high_burst, t) ==
    MonitorQdisc_new(RootHtb(limit, global_rate, global_burst, high_rate, high_burst, t), t)

-----------------------------------------------------------------------------
(* The qdiscs under test and their inputs *)

\* pkt_len, cost, is_pure_ack, tcp_ack_num of the packets offered
Ack100 == [pkt_len |-> 40, cost |-> 146, is_pure_ack |-> TRUE, tcp_ack_num |-> U32(0, 100)]
Ack200 == [pkt_len |-> 52, cost |-> 162, is_pure_ack |-> TRUE, tcp_ack_num |-> U32(0, 200)]
Data == [pkt_len |-> 1000, cost |-> 1106, is_pure_ack |-> FALSE, tcp_ack_num |-> U32(0, 0)]

In(key, queue_num, kind) == [key |-> key, queue_num |-> queue_num, kind |-> kind]

Shapes ==
    { FifoQdisc_new(10, 2),
      DrrQdisc_new(100, 2, 1500),
      TcpAckFilterQdisc_new(DrrQdisc_new(100, 2, 1500)),
      LongLeaf(1),
      ClassDrrQdisc_new(BulkClassifier, DrrQdisc_new(100, 2, 1500)),
      HighQdisc(2),
      RootHtb(2, 2000, 440, 1000, 300, 0),
      MonitorQdisc_new(FifoQdisc_new(10, 2), 0) }

\* the packets offered to each qdisc under test
RECURSIVE Inputs(_)
Inputs(qd) ==
    CASE qd.kind = "fifo" -> {In(1, 0, Ack100), In(1, 0, Data)}
      [] qd.kind = "drr" -> {In(1, 0, Ack100), In(1, 0, Data), In(2, 1, Data)}
      [] qd.kind = "ackfilter" -> {In(1, 0, Ack100), In(1, 0, Ack200), In(2, 0, Data)}
      [] qd.kind = "sparse" -> {In(1, 0, Ack100), In(2, 0, Data)}
      [] qd.kind = "classdrr" -> {In(1, 0, Data), In(2, 1, Ack100)}
      [] qd.kind = "dualfair" -> {In(1, 3, Ack100), In(2, 2, Data)}
      [] qd.kind = "roothtb" -> {In(1, 3, Ack100), In(1, 3, Ack200), In(2, 0, Ack100)}
      [] qd.kind = "monitor" -> Inputs(qd.inner)

\* the clock advances between calls
TickSteps == {500, 1001}

NoCall == [op |-> "none", arg |-> <<>>, res |-> <<>>]

Init ==
    /\ q \in Shapes
    /\ now = 0
    /\ nextId = 1
    /\ last = NoCall
    /\ okd = {}
    /\ errd = {}
    /\ deqd = {}
    /\ colld = {}
    /\ served = <<>>
    /\ pc = "calls"
    /\ verdicts = EmptyMap
    /\ cur = <<>>
    /\ todo = <<>>

DoEnqueue ==
    /\ nextId <= MaxPkts
    /\ \E in \in Inputs(q) :
         LET ctx == PacketContext(nextId, in.key, in.kind.pkt_len, in.kind.cost,
                                  in.queue_num, now,
                                  in.kind.is_pure_ack, in.kind.tcp_ack_num)
         IN  /\ ~Panics(q, ctx)
             /\ LET r == Enqueue(q, ctx, now)
                IN  /\ q' = r.q
                    /\ last' = [op |-> "enqueue", arg |-> <<ctx>>, res |-> r.res]
                    /\ okd' = IF r.res = <<>> THEN okd \cup {ctx.id} ELSE okd
                    /\ errd' = errd \cup SeqToSet(Ids(r.res))
    /\ nextId' = nextId + 1
    /\ UNCHANGED <<now, deqd, served, colld, pc, verdicts, parts>>

DoPeek ==
    /\ LET r == Peek(q, now)
       IN  /\ q' = r.q
           /\ last' = [op |-> "peek", arg |-> <<>>, res |-> r.res]
    /\ UNCHANGED <<now, nextId, okd, errd, deqd, served, colld, pc, verdicts, parts>>

DoDequeue ==
    /\ LET r == Dequeue(q, now)
       IN  /\ q' = r.q
           /\ last' = [op |-> "dequeue", arg |-> <<>>, res |-> r.res]
           /\ deqd' = deqd \cup SeqToSet(Ids(r.res))
    /\ UNCHANGED <<now, nextId, okd, errd, served, colld, pc, verdicts, parts>>

\* dequeue, with the context it returns added to the record of the order
DoServe ==
    /\ LET r == Dequeue(q, now)
       IN  /\ q' = r.q
           /\ last' = [op |-> "dequeue", arg |-> <<>>, res |-> r.res]
           /\ deqd' = deqd \cup SeqToSet(Ids(r.res))
           /\ served' = served \o r.res
    /\ UNCHANGED <<now, nextId, okd, errd, colld, pc, verdicts, parts>>

DoCollectDropped ==
    /\ LET r == CollectDropped(q)
       IN  /\ q' = r.q
           /\ last' = [op |-> "collect_dropped", arg |-> <<>>, res |-> r.res]
           /\ colld' = colld \cup SeqToSet(Ids(r.res))
    /\ UNCHANGED <<now, nextId, okd, errd, deqd, served, pc, verdicts, parts>>

Tick ==
    /\ \E d \in TickSteps : now + d <= MaxTime /\ now' = now + d
    /\ last' = [op |-> "tick", arg |-> <<>>, res |-> <<>>]
    /\ UNCHANGED <<q, nextId, okd, errd, deqd, served, colld, pc, verdicts, parts>>

Next == DoEnqueue \/ DoPeek \/ DoDequeue \/ DoCollectDropped \/ Tick

Spec == Init /\ [][Next]_vars

-----------------------------------------------------------------------------
(* Ledgers of the contexts created so far *)

Created == 1..(nextId - 1)
HandedOut == errd \cup deqd \cup colld

Pairwise == 
    /\ errd \cap deqd = {}
    /\ errd \cap colld = {}
    /\ deqd \cap colld = {}
    /\ ResidentIds(q) \cap HandedOut = {}

-----------------------------------------------------------------------------
(* C2: MonitorQdisc loses no context: every context passed to its enqueue  *)
(* is, at every moment, either still inside the wrapped qdisc or has been  *)
(* handed to the caller (by dequeue, in the vector of collect_dropped, or  *)
(* back in an Err); none is discarded inside the wrapper.                  *)
C2_MonitorLosesNoContext ==
    q.kind = "monitor" => Created = HandedOut \cup ResidentIds(q)

(* C3: conservation for FifoQdisc, DrrQdisc, SparseQdisc, ClassDrrQdisc,   *)
(* DualFairQdisc, TcpAckFilterQdisc and RootHtbQdisc with their children:  *)
(* the enqueues that returned Ok are as many as the contexts returned by   *)
(* dequeue plus those returned by collect_dropped plus those still held;   *)
(* no context is held twice or handed out twice, and none vanishes.        *)
C3_Conservation ==
    q.kind # "monitor" =>
        /\ Cardinality(okd) =
               Cardinality(deqd) + Cardinality(colld) + Len(Residents(q))
        /\ Cardinality(ResidentIds(q)) = Len(Residents(q))
        /\ Pairwise
        /\ Created = HandedOut \cup ResidentIds(q)

C3_Witness ==
    /\ q.kind = "roothtb"
    /\ deqd # {}
    /\ colld # {}
    /\ Residents(q) # <<>>

(* C4: when enqueue(c) returns Err(x), x is the context c that was passed  *)
(* in, c has not been inserted and the residents are unchanged by the call *)
C4_ErrHandsBackSameContext ==
    [][(last'.op = "enqueue" /\ last'.res # <<>>) =>
           /\ last'.res = last'.arg
           /\ last'.arg[1].id \notin ResidentIds(q')
           /\ Residents(q') = Residents(q)]_vars

(* C5: peek returns the context dequeue would return if called now: a      *)
(* dequeue that directly follows a peek (no enqueue, no clock advance in   *)
(* between) returns what the peek returned, Some or None.                  *)
C5_PeekIsNextDequeue ==
    [][(last.op = "peek" /\ last'.op = "dequeue") => last'.res = last.res]_vars

-----------------------------------------------------------------------------
(* RootHtbQdisc: what a dequeue step did. A step is a dequeue of the root  *)
(* when last' records it; the buckets hold, at the call, what refill gives *)
(* them at now.                                                            *)

HtbDequeued == q.kind = "roothtb" /\ last'.op = "dequeue"
IsHighLane(ctx) == ctx.queue_num \in q.classifier

GlobalHeld == Refill(q.global_bucket, now).tokens
HighHeld == Refill(q.high_bucket, now).tokens
Tokens(n) == n * TicksPerSec

\* the head of the high lane at the call, and whether both buckets cover it
HighHead == Peek(q.high_queue, now).res
HighHeadCovered ==
    /\ HighHead # <<>>
    /\ HighHeld >= Tokens(HighHead[1].cost)
    /\ GlobalHeld >= Tokens(HighHead[1].cost)

(* C6: whenever RootHtbQdisc.dequeue returns a high-lane context c, the    *)
(* high bucket and the global bucket each held at least c.cost tokens and  *)
(* each is debited by exactly c.cost; whenever it returns a default-lane   *)
(* context c, the global bucket is debited by exactly c.cost.              *)
C6_DequeueDebitsCost ==
    [][(HtbDequeued /\ last'.res # <<>>) =>
          LET c == last'.res[1]
          IN  IF IsHighLane(c)
              THEN /\ HighHeld >= Tokens(c.cost)
                   /\ GlobalHeld >= Tokens(c.cost)
                   /\ q'.high_bucket.tokens = HighHeld - Tokens(c.cost)
                   /\ q'.global_bucket.tokens = GlobalHeld - Tokens(c.cost)
              ELSE q'.global_bucket.tokens = GlobalHeld - Tokens(c.cost)]_vars

\* the reserve as the default lane sees it: below it no default-lane context
\* leaves the root
ReserveGatesDefault ==
    [][(HtbDequeued /\ GlobalHeld < Tokens(q.reserved_bytes)) =>
          (last'.res # <<>> => IsHighLane(last'.res[1]))]_vars

(* C7: HTB reserve: in a state where the global bucket holds fewer than    *)
(* reserved_bytes tokens, dequeue never returns a default-lane context,    *)
(* while a high-lane head is still returned if the high bucket and the     *)
(* global bucket can each cover its cost.                                  *)
C7_HtbReserve ==
    [][(HtbDequeued /\ GlobalHeld < Tokens(q.reserved_bytes)) =>
          /\ last'.res # <<>> => IsHighLane(last'.res[1])
          /\ HighHeadCovered => last'.res = HighHead]_vars

(* C9: HTB strict priority: whenever the high lane has a head whose cost   *)
(* both buckets can cover, dequeue returns a high-lane context; a          *)
(* default-lane context is returned only when the high lane has no head or *)
(* its head is gated by one of the two buckets.                            *)
C9_StrictPriority ==
    [][HtbDequeued =>
          /\ HighHeadCovered => (last'.res # <<>> /\ IsHighLane(last'.res[1]))
          /\ (last'.res # <<>> /\ ~IsHighLane(last'.res[1])) => ~HighHeadCovered]_vars

-----------------------------------------------------------------------------
(* C10: staleness in FifoQdisc and DrrQdisc. peek and dequeue never return *)
(* a context whose age exceeds max_latency at the call; the stale contexts *)
(* reached at the head of the FIFO, or of a flow the call touched, are     *)
(* moved to the pending buffer and nothing else is; the next               *)
(* collect_dropped returns the whole pending buffer.                       *)

IsLeaf == q.kind \in {"fifo", "drr"}
StaleNow(ctx) == IsStale(ctx, now, q.max_latency)

\* the stale contexts a peek or dequeue at now has to reach: the stale
\* prefix of the FIFO; for DRR nothing is left stale at the head of the flow
\* that is served, and every flow was swept when nothing is served
HeadsSwept ==
    IF q'.kind = "fifo"
    THEN q'.queue # <<>> => ~StaleNow(Head(q'.queue))
    ELSE IF last'.res = <<>>
         THEN DOMAIN q'.flows = {}
         ELSE LET k == last'.res[1].key
              IN  k \in DOMAIN q'.flows => ~StaleNow(Head(q'.flows[k].queue))

MovedToPending ==
    /\ Len(q'.pending_expired) >= Len(q.pending_expired)
    /\ SubSeq(q'.pending_expired, 1, Len(q.pending_expired)) = q.pending_expired
    /\ \A i \in (Len(q.pending_expired) + 1)..Len(q'.pending_expired) :
          StaleNow(q'.pending_expired[i])
    /\ ResidentIds(q) = ResidentIds(q') \cup
          (IF last'.op = "dequeue" THEN SeqToSet(Ids(last'.res)) ELSE {})

C10_Staleness ==
    [][IsLeaf =>
          /\ last'.op \in {"peek", "dequeue"} =>
                /\ last'.res # <<>> => ~StaleNow(last'.res[1])
                /\ HeadsSwept
                /\ MovedToPending
          /\ last'.op = "collect_dropped" =>
                /\ last'.res = q.pending_expired
                /\ q'.pending_expired = <<>>]_vars

\* spec scenario S2: enqueued at t = 0 with max_latency 10 ms, peek at 50 ms
C10_Witness ==
    /\ q.kind = "fifo"
    /\ now = 50 * TicksPerMs
    /\ last.op = "peek"
    /\ last.res = <<>>
    /\ q.pending_expired # <<>>
    /\ q.pending_expired[1].arrival_time = 0

-----------------------------------------------------------------------------
(* SparseQdisc: the counter of a flow against what the two children hold   *)

FlowCount(s, k) == IF k \in DOMAIN s.flow_counts THEN s.flow_counts[k] ELSE 0

\* the contexts of flow k in either child, queued or awaiting collect_dropped
InFlight(s, k) ==
    LET held == Residents(s)
    IN  Cardinality({i \in 1..Len(held) : held[i].key = k})

FlowKeys(s) == DOMAIN s.flow_counts \cup {c.key : c \in SeqToSet(Residents(s))}

(* C11: SparseQdisc counter: after any sequence of operations, for every   *)
(* flow key k, flow_counts[k] (0 when absent) is the number of contexts of *)
(* key k that the two children still hold, queued or awaiting              *)
(* collect_dropped; so the counter is zero exactly when no context of the  *)
(* flow is in flight, which is what routes the next one to the sparse      *)
(* child.                                                                  *)
C11_SparseCounter ==
    q.kind = "sparse" => \A k \in FlowKeys(q) : FlowCount(q, k) = InFlight(q, k)

-----------------------------------------------------------------------------
(* Scenario S5, HTB gating: a RootHtbQdisc whose global bucket has rate    *)
(* 1000 B/s and burst 0, reserved_bytes = 1000, and one 500-byte           *)
(* default-lane packet enqueued at t = 0. The default lane keeps a packet  *)
(* for S5LatencyMs, longer than the scenario lasts.                        *)

S5Horizon == 20000
S5LatencyMs == 5000
S5Steps == {500, 2500}

S5Tree ==
    RootHtbQdisc_new(HighQdisc(2), FifoQdisc_new(S5LatencyMs, 2),
                     TokenBucket_new(1000, 0, 0), TokenBucket_new(1000, 300, 0),
                     1000, RootClassifier)

S5Packet == PacketContext(1, 1, 500, 500, 0, 0, FALSE, U32(0, 0))

InitS5 ==
    /\ q = S5Tree
    /\ now = 0
    /\ nextId = 1
    /\ last = NoCall
    /\ okd = {}
    /\ errd = {}
    /\ deqd = {}
    /\ colld = {}
    /\ served = <<>>
    /\ pc = "calls"
    /\ verdicts = EmptyMap
    /\ cur = <<>>
    /\ todo = <<>>

S5Enqueue ==
    /\ nextId = 1
    /\ now = 0
    /\ LET r == Enqueue(q, S5Packet, now)
       IN  /\ q' = r.q
           /\ last' = [op |-> "enqueue", arg |-> <<S5Packet>>, res |-> r.res]
           /\ okd' = IF r.res = <<>> THEN okd \cup {S5Packet.id} ELSE okd
           /\ errd' = errd \cup SeqToSet(Ids(r.res))
    /\ nextId' = nextId + 1
    /\ UNCHANGED <<now, deqd, served, colld, pc, verdicts, parts>>

S5Tick ==
    /\ \E d \in S5Steps : now + d <= S5Horizon /\ now' = now + d
    /\ last' = [op |-> "tick", arg |-> <<>>, res |-> <<>>]
    /\ UNCHANGED <<q, nextId, okd, errd, deqd, served, colld, pc, verdicts, parts>>

NextS5 == S5Enqueue \/ DoPeek \/ DoDequeue \/ DoCollectDropped \/ S5Tick

SpecS5 == InitS5 /\ [][NextS5]_vars

S5Enqueued == okd = {1} /\ S5Packet \in SeqToSet(Residents(q))

(* C8, as the code has it: in scenario S5 dequeue returns None at t = 0    *)
(* and still returns None at t = 2 s (and at every time in between): the   *)
(* global bucket is capped at capacity = burst = 0, so it never holds the  *)
(* 500 + 1000 tokens the default lane needs, and the packet stays queued.  *)
C8_S5_NeverReleased ==
    /\ q.global_bucket.tokens = 0
    /\ last.op = "dequeue" => last.res = <<>>
    /\ deqd = {}
    /\ nextId > 1 => S5Enqueued

C8_S5_Witness ==
    /\ S5Enqueued
    /\ now = 2 * TicksPerSec
    /\ last.op = "dequeue"
    /\ last.res = <<>>
    /\ q.global_bucket.last_update = now

(* C8, as stated: in scenario S5 dequeue at t = 0 returns None and dequeue *)
(* at t = 2 s returns the packet.                                          *)
C8_S5_AsStated ==
    [][(okd = {1} /\ deqd = {} /\ last'.op = "dequeue") =>
          /\ now = 0 => last'.res = <<>>
          /\ now = 2 * TicksPerSec => last'.res = <<S5Packet>>]_vars

-----------------------------------------------------------------------------
(* The ingestion loop of main over the assembled pipeline (MonitorQdisc    *)
(* over RootHtbQdisc). pc is the phase of one pass of the outer loop:      *)
(* "recv" polls the kernel queues and enqueues, "send" dequeues until None *)
(* and accepts, "reap" collects the dropped contexts and drops them. The   *)
(* clock advances between any two calls. The kernel queues deliver at most *)
(* MaxPkts messages, fewer than BATCH_LIMIT, so the batch is always ended  *)
(* by a round in which no queue had a message.                             *)

BATCH_LIMIT == 10000

MainPipeline == Pipeline(2, 2000, 440, 1000, 300, 0)

Issue(v, ids, verdict) ==
    [id \in DOMAIN v \cup ids |->
        IF id \in ids
        THEN Append(IF id \in DOMAIN v THEN v[id] ELSE <<>>, verdict)
        ELSE v[id]]

InitMain ==
    /\ q = MainPipeline
    /\ now = 0
    /\ nextId = 1
    /\ last = NoCall
    /\ okd = {}
    /\ errd = {}
    /\ deqd = {}
    /\ colld = {}
    /\ served = <<>>
    /\ pc = "recv"
    /\ verdicts = EmptyMap
    /\ cur = <<>>
    /\ todo = <<>>

\* queues[i].recv() returned Ok(msg): build the context, enqueue it, and
\* drop what enqueue hands back
MainRecv ==
    /\ pc = "recv"
    /\ nextId <= MaxPkts
    /\ nextId <= BATCH_LIMIT
    /\ \E in \in Inputs(q) :
         LET ctx == PacketContext(nextId, in.key, in.kind.pkt_len, in.kind.cost,
                                  in.queue_num, now,
                                  in.kind.is_pure_ack, in.kind.tcp_ack_num)
         IN  /\ ~Panics(q, ctx)
             /\ LET r == Enqueue(q, ctx, now)
                IN  /\ q' = r.q
                    /\ last' = [op |-> "enqueue", arg |-> <<ctx>>, res |-> r.res]
                    /\ okd' = IF r.res = <<>> THEN okd \cup {ctx.id} ELSE okd
                    /\ errd' = errd \cup SeqToSet(Ids(r.res))
                    /\ verdicts' = Issue(verdicts, SeqToSet(Ids(r.res)), "DROP")
    /\ nextId' = nextId + 1
    /\ UNCHANGED <<now, deqd, served, colld, pc, parts>>

\* a round of the six queues in which every recv() failed
MainNoPacket ==
    /\ pc = "recv"
    /\ pc' = "send"
    /\ UNCHANGED <<q, now, nextId, last, okd, errd, deqd, served, colld, verdicts, parts>>

\* one pass of the send loop: accept what dequeue returns, leave on None
MainSend ==
    /\ pc = "send"
    /\ LET r == Dequeue(q, now)
       IN  /\ q' = r.q
           /\ last' = [op |-> "dequeue", arg |-> <<>>, res |-> r.res]
           /\ deqd' = deqd \cup SeqToSet(Ids(r.res))
           /\ served' = served \o r.res
           /\ verdicts' = Issue(verdicts, SeqToSet(Ids(r.res)), "ACCEPT")
           /\ pc' = IF r.res = <<>> THEN "reap" ELSE "send"
    /\ UNCHANGED <<now, nextId, okd, errd, colld, parts>>

\* drop every context collect_dropped surfaces
MainReap ==
    /\ pc = "reap"
    /\ LET r == CollectDropped(q)
       IN  /\ q' = r.q
           /\ last' = [op |-> "collect_dropped", arg |-> <<>>, res |-> r.res]
           /\ colld' = colld \cup SeqToSet(Ids(r.res))
           /\ verdicts' = Issue(verdicts, SeqToSet(Ids(r.res)), "DROP")
    /\ pc' = "recv"
    /\ UNCHANGED <<now, nextId, okd, errd, deqd, served, parts>>

NextMain == MainRecv \/ MainNoPacket \/ MainSend \/ MainReap \/ Tick

SpecMain == InitMain /\ [][NextMain]_vars

VerdictsOf(id) == IF id \in DOMAIN verdicts THEN verdicts[id] ELSE <<>>

(* C1: in the ingestion loop every message received from a kernel queue    *)
(* gets exactly one verdict: ACCEPT if it was dequeued, DROP if enqueue     *)
(* handed it back or it died inside the tree. Stated at the end of a pass   *)
(* of the loop, right after the reap: a received message is still queued in *)
(* the tree with no verdict yet, or it has exactly one verdict, ACCEPT      *)
(* exactly when dequeue returned it; and none ever has two.                 *)
C1_EveryMessageOneVerdict ==
    /\ \A id \in Created : Len(VerdictsOf(id)) <= 1
    /\ \A id \in deqd : VerdictsOf(id) = <<"ACCEPT">>
    /\ (pc = "recv" /\ last.op = "collect_dropped") =>
          \A id \in Created :
              \/ id \in ResidentIds(q) /\ VerdictsOf(id) = <<>>
              \/ id \notin ResidentIds(q) /\ Len(VerdictsOf(id)) = 1

\* a pass of the loop in which a message died inside the tree
C1_Witness ==
    /\ pc = "recv"
    /\ last.op = "collect_dropped"
    /\ \E id \in Created : id \notin ResidentIds(q) /\ id \notin deqd

-----------------------------------------------------------------------------
(* ACK supersede, scenario S4 and its generalisation: one flow sends up to *)
(* MaxAcks pure ACKs into the ACK filter of main's long leaf               *)
(* (TcpAckFilterQdisc over DrrQdisc::new(100, 2048, 1500)) at one instant, *)
(* then the filter is dequeued until empty and the drops are collected.    *)
(* The ack numbers offered: 100, 150, 200 (S4), 2^32 - 36 (just before     *)
(* the rollover) and 22000 * 2^16, 44000 * 2^16 (more than a third of the  *)
(* number circle apart from each other and from 100).                      *)

MaxAcks == 3

AckNums ==
    {U32(0, 100), U32(0, 150), U32(0, 200), U32(65535, 65500),
     U32(22000, 0), U32(44000, 0)}

AckTree == TcpAckFilterQdisc_new(DrrQdisc_new(100, 2048, 1500))

InitAck ==
    /\ q = AckTree
    /\ now = 0
    /\ nextId = 1
    /\ last = NoCall
    /\ okd = {}
    /\ errd = {}
    /\ deqd = {}
    /\ colld = {}
    /\ served = <<>>
    /\ pc = "calls"
    /\ verdicts = EmptyMap
    /\ cur = <<>>
    /\ todo = <<>>

\* the next pure ACK of the flow; all are enqueued before the first is served
AckEnqueue ==
    /\ nextId <= MaxAcks
    /\ deqd = {}
    /\ colld = {}
    /\ \E a \in AckNums :
         LET ctx == PacketContext(nextId, 1, 40, 146, 3, now, TRUE, a)
             r == Enqueue(q, ctx, now)
         IN  /\ q' = r.q
             /\ last' = [op |-> "enqueue", arg |-> <<ctx>>, res |-> r.res]
             /\ okd' = IF r.res = <<>> THEN okd \cup {ctx.id} ELSE okd
             /\ errd' = errd \cup SeqToSet(Ids(r.res))
    /\ nextId' = nextId + 1
    /\ UNCHANGED <<now, deqd, served, colld, pc, verdicts, parts>>

NextAck == AckEnqueue \/ DoServe \/ DoCollectDropped

SpecAck == InitAck /\ [][NextAck]_vars

\* every ACK offered so far, while none has been collected
AllAcks == SeqToSet(served) \cup SeqToSet(Residents(q))

\* fully dequeued: the inner qdisc holds nothing, and nothing was collected
AckDrained == nextId > 1 /\ Residents(q.inner) = <<>> /\ colld = {}

\* (x - base) mod 2^32 as the pair of its halves, and the order of offsets
AckOffset(x, base) == WrappingSub(x.tcp_ack_num, base.tcp_ack_num)
OffsetLess(d, e) == d[1] < e[1] \/ (d[1] = e[1] /\ d[2] < e[2])

\* all ack numbers lie less than 2^31 after base
WindowFrom(base) == \A x \in AllAcks : AckOffset(x, base)[1] < Half
InWindow == \E base \in AllAcks : WindowFrom(base)

\* x carries the newest number of the window that starts at base
NewestFrom(x, base) ==
    \A y \in AllAcks : ~OffsetLess(AckOffset(x, base), AckOffset(y, base))

Newest == {x \in AllAcks : \E base \in AllAcks : WindowFrom(base) /\ NewestFrom(x, base)}

\* x is maximal under the signed-delta order: no ACK offered is newer
SignedNewer(a, b) == AckOffset(a, b)[1] < Half /\ AckOffset(a, b) # <<0, 0>>
Maximal(x) == \A y \in AllAcks : ~SignedNewer(y, x)

(* C12, as the code has it: when the ack numbers of the flow's pure ACKs   *)
(* all lie within a window of less than 2^31 (modulo 2^32, so across the   *)
(* rollover too), the dequeues return exactly the contexts that carry the  *)
(* newest number of the window, in arrival order (one context unless the   *)
(* newest number was sent more than once), and the collect_dropped that    *)
(* follows returns every other one.                                        *)
C12_NewestSurvives ==
    [][(AckDrained /\ InWindow /\ last'.op = "collect_dropped") =>
          /\ served # <<>>
          /\ SeqToSet(served) = Newest
          /\ \A i, j \in 1..Len(served) : i < j => served[i].id < served[j].id
          /\ SeqToSet(last'.res) = AllAcks \ Newest
          /\ Len(last'.res) = Cardinality(AllAcks \ Newest)]_vars

\* scenario S4: 100, 200, 150 enqueued; 200 returned, 100 and 150 collected
C12_S4_Witness ==
    /\ last.op = "collect_dropped"
    /\ Len(served) = 1
    /\ served[1].id = 2
    /\ served[1].tcp_ack_num = U32(0, 200)
    /\ Len(last.res) = 2
    /\ last.res[1].id = 1 /\ last.res[1].tcp_ack_num = U32(0, 100)
    /\ last.res[2].id = 3 /\ last.res[2].tcp_ack_num = U32(0, 150)

(* C12, as stated: for arbitrary 32-bit ack numbers, once the flow's pure  *)
(* ACKs are fully dequeued, what dequeue returned is maximal under the     *)
(* signed-delta order (no ACK of the sequence is newer than it) and        *)
(* everything else is dropped.                                             *)
C12_AsStated ==
    [][(AckDrained /\ last'.op = "collect_dropped") =>
          /\ served # <<>>
          /\ \A i \in 1..Len(served) : Maximal(served[i])
          /\ SeqToSet(last'.res) = AllAcks \ SeqToSet(served)]_vars

-----------------------------------------------------------------------------
(* Scenario S3, DRR fairness: a DrrQdisc with quantum 1000 (and main's     *)
(* max_latency and hard_limit) receives S3PerFlow packets of 500 bytes of  *)
(* flow X, then as many of flow Y, all at one instant, and is then         *)
(* dequeued until empty.                                                   *)

S3PerFlow == 100

FlowX == 1
FlowY == 2

S3Tree == DrrQdisc_new(100, 2048, 1000)

S3Packet(id) ==
    PacketContext(id, IF id <= S3PerFlow THEN FlowX ELSE FlowY, 500, 500, 0, 0, FALSE, U32(0, 0))

InitS3 ==
    /\ q = S3Tree
    /\ now = 0
    /\ nextId = 1
    /\ last = NoCall
    /\ okd = {}
    /\ errd = {}
    /\ deqd = {}
    /\ colld = {}
    /\ served = <<>>
    /\ pc = "calls"
    /\ verdicts = EmptyMap
    /\ cur = <<>>
    /\ todo = <<>>

S3Enqueue ==
    /\ nextId <= 2 * S3PerFlow
    /\ LET ctx == S3Packet(nextId)
           r == Enqueue(q, ctx, now)
       IN  /\ q' = r.q
           /\ last' = [op |-> "enqueue", arg |-> <<ctx>>, res |-> r.res]
           /\ okd' = IF r.res = <<>> THEN okd \cup {ctx.id} ELSE okd
           /\ errd' = errd \cup SeqToSet(Ids(r.res))
    /\ nextId' = nextId + 1
    /\ UNCHANGED <<now, deqd, served, colld, pc, verdicts, parts>>

\* the dequeues start when both flows are enqueued
S3Dequeue ==
    /\ nextId > 2 * S3PerFlow
    /\ DoServe

NextS3 == S3Enqueue \/ S3Dequeue

SpecS3 == InitS3 /\ [][NextS3]_vars

\* the pair of dequeues position i belongs to, counted from 0
S3Pair(i) == (i - 1) \div 2

\* the positions to which both flows contribute full pairs
S3Paired == 1..Min(Len(served), 4 * (S3PerFlow \div 2))

\* the packet of flow X (base 0) or of flow Y (base S3PerFlow) due at position i
S3Due(i, base) == base + 2 * (S3Pair(i) \div 2) + ((i - 1) % 2) + 1

(* C13, as the code has it: in scenario S3 every dequeue returns a packet  *)
(* until all are served, and the order is strictly interleaved in pairs    *)
(* starting with Y, the flow created last: 2Y, 2X, 2Y, 2X, ...; each flow  *)
(* is served in its arrival order.                                         *)
C13_S3_PairsFromY ==
    /\ \A i \in S3Paired :
          served[i].id = S3Due(i, IF S3Pair(i) % 2 = 0 THEN S3PerFlow ELSE 0)
    /\ (last.op = "dequeue" /\ Len(served) < 2 * S3PerFlow) => last.res # <<>>
    /\ Len(served) <= 2 * S3PerFlow

C13_S3_Witness ==
    /\ last.op = "dequeue"
    /\ Len(served) = 2 * S3PerFlow
    /\ Residents(q) = <<>>

(* C13, as stated: in scenario S3 the dequeues return the order 2X, 2Y,    *)
(* 2X, 2Y, ...                                                             *)
C13_S3_AsStated ==
    \A i \in S3Paired :
        served[i].key = (IF S3Pair(i) % 2 = 0 THEN FlowX ELSE FlowY)

-----------------------------------------------------------------------------
(* DRR byte-fairness: two flows X and Y in main's DRR leaf                 *)
(* (DrrQdisc::new(100, 2048, 1500)) receive the same sequence of packet    *)
(* sizes, the j-th packet of Y after the j-th of X, at one instant; the    *)
(* qdisc is peeked at any time and dequeued while both flows are           *)
(* backlogged. The sizes offered: 40 and 1500 (at most the quantum) and    *)
(* 4000 (an aggregated segment, longer than the quantum).                  *)

MaxPairs == 4

FairSizes == {40, 1500, 4000}

FairTree == DrrQdisc_new(100, 2048, 1500)

InitFair ==
    /\ q = FairTree
    /\ now = 0
    /\ nextId = 1
    /\ last = NoCall
    /\ okd = {}
    /\ errd = {}
    /\ deqd = {}
    /\ colld = {}
    /\ served = <<>>
    /\ pc = "calls"
    /\ verdicts = EmptyMap
    /\ cur = <<>>
    /\ todo = <<>>

\* the contexts created so far that are still known: queued or served
FairKnown == SeqToSet(Residents(q)) \cup SeqToSet(served)

\* flow X holds the odd ids, flow Y the even ones; a packet of Y has the
\* size of the packet of X created just before it
FairSizesOf(id) ==
    IF id % 2 = 1 THEN FairSizes
    ELSE {c.pkt_len : c \in {x \in FairKnown : x.id = id - 1}}

Backlogged(k) == k \in DOMAIN q.flows

\* a flow is fed from its creation on and never after it ran empty
FairEnqueue ==
    /\ nextId <= 2 * MaxPairs
    /\ LET key == IF nextId % 2 = 1 THEN FlowX ELSE FlowY
       IN  /\ nextId > 2 => Backlogged(key)
           /\ \E len \in FairSizesOf(nextId) :
                LET ctx == PacketContext(nextId, key, len, len, 0, now, FALSE, U32(0, 0))
                    r == Enqueue(q, ctx, now)
                IN  /\ q' = r.q
                    /\ last' = [op |-> "enqueue", arg |-> <<ctx>>, res |-> r.res]
                    /\ okd' = IF r.res = <<>> THEN okd \cup {ctx.id} ELSE okd
                    /\ errd' = errd \cup SeqToSet(Ids(r.res))
    /\ nextId' = nextId + 1
    /\ UNCHANGED <<now, deqd, served, colld, pc, verdicts, parts>>

FairDequeue ==
    /\ Backlogged(FlowX)
    /\ Backlogged(FlowY)
    /\ DoServe

NextFair == FairEnqueue \/ DoPeek \/ FairDequeue

SpecFair == InitFair /\ [][NextFair]_vars

\* the cumulative bytes (pkt_len) served to flow k
RECURSIVE BytesOf(_, _)
BytesOf(s, k) ==
    IF s = <<>> THEN 0
    ELSE (IF Head(s).key = k THEN Head(s).pkt_len ELSE 0) + BytesOf(Tail(s), k)

FairGap ==
    LET x == BytesOf(served, FlowX)
        y == BytesOf(served, FlowY)
    IN  IF x > y THEN x - y ELSE y - x

BothBacklogged == Backlogged(FlowX) /\ Backlogged(FlowY)

\* no packet offered so far is longer than the quantum
WithinQuantum == \A c \in FairKnown : c.pkt_len <= q.quantum

(* C14, as the code has it: for two flows of one DrrQdisc that stay        *)
(* backlogged, have the same quantum and identical packet-size sequences   *)
(* with no packet longer than the quantum, after any number of dequeues    *)
(* the cumulative bytes (pkt_len) served to the two flows differ by at     *)
(* most 2*quantum.                                                         *)
C14_DrrByteFair ==
    (BothBacklogged /\ WithinQuantum) => FairGap <= 2 * q.quantum

\* one flow is a full visit ahead of the other
C14_Witness ==
    /\ BothBacklogged
    /\ WithinQuantum
    /\ last.op = "dequeue"
    /\ Len(served) >= 3
    /\ FairGap >= q.quantum

(* C14, as stated: for two flows of one DrrQdisc that stay backlogged,     *)
(* have the same quantum and identical packet-size sequences, after any    *)
(* number of dequeues the cumulative bytes served to the two flows differ  *)
(* by at most 2*quantum.                                                   *)
C14_AsStated == BothBacklogged => FairGap <= 2 * q.quantum

-----------------------------------------------------------------------------
(* Scenario S6, DualFair byte fairness: a DualFairQdisc with quantum 1500  *)
(* over two FIFO lanes (main's short leaf, FifoQdisc::new(10, 2048))       *)
(* receives packets of cost 1000 alternately for lane A and lane B,        *)
(* S6PerLane for each, all at one instant, and is then dequeued until      *)
(* empty; peek is called at any time between the dequeues and              *)
(* collect_dropped at any time.                                            *)

S6PerLane == 10

LaneA == 2
LaneB == 3

S6Tree ==
    DualFairQdisc_new(FifoQdisc_new(10, 2048), FifoQdisc_new(10, 2048), 1500, VipClassifier)

\* the odd ids go to lane A (queue_num 2), the even ones to lane B
S6Packet(id) ==
    PacketContext(id, id, 1000, 1000, IF id % 2 = 1 THEN LaneA ELSE LaneB, 0, FALSE, U32(0, 0))

InitS6 ==
    /\ q = S6Tree
    /\ now = 0
    /\ nextId = 1
    /\ last = NoCall
    /\ okd = {}
    /\ errd = {}
    /\ deqd = {}
    /\ colld = {}
    /\ served = <<>>
    /\ pc = "calls"
    /\ verdicts = EmptyMap
    /\ cur = <<>>
    /\ todo = <<>>

S6Enqueue ==
    /\ nextId <= 2 * S6PerLane
    /\ LET ctx == S6Packet(nextId)
           r == Enqueue(q, ctx, now)
       IN  /\ q' = r.q
           /\ last' = [op |-> "enqueue", arg |-> <<ctx>>, res |-> r.res]
           /\ okd' = IF r.res = <<>> THEN okd \cup {ctx.id} ELSE okd
           /\ errd' = errd \cup SeqToSet(Ids(r.res))
    /\ nextId' = nextId + 1
    /\ UNCHANGED <<now, deqd, served, colld, pc, verdicts, parts>>

\* the dequeues start when all packets are enqueued
S6Dequeue ==
    /\ nextId > 2 * S6PerLane
    /\ DoServe

S6Peek ==
    /\ nextId > 2 * S6PerLane
    /\ DoPeek

NextS6 == S6Enqueue \/ S6Dequeue \/ S6Peek \/ DoCollectDropped

SpecS6 == InitS6 /\ [][NextS6]_vars

\* the service order of the code: a period of six dequeues
S6Period == <<LaneA, LaneB, LaneA, LaneA, LaneB, LaneB>>
S6Turn(i) == S6Period[((i - 1) % 6) + 1]

\* how many of the first i dequeues the period gives to a lane
RECURSIVE S6Share(_, _)
S6Share(i, lane) ==
    IF i = 0 THEN 0 ELSE S6Share(i - 1, lane) + (IF S6Turn(i) = lane THEN 1 ELSE 0)

(* C15, as the code has it: in scenario S6 every dequeue returns a packet  *)
(* until all are served; the lanes are served in the repeating order       *)
(* A, B, A, A, B, B (three of each lane in every six dequeues, at most two *)
(* in a row from one lane) as long as the lane due still has packets, each *)
(* lane in arrival order; deficit_a and deficit_b stay within [0, 2000].   *)
C15_S6_Order ==
    /\ \A i \in 1..Len(served) :
          S6Share(i, S6Turn(i)) <= S6PerLane =>
              /\ served[i].queue_num = S6Turn(i)
              /\ served[i].id = 2 * S6Share(i, S6Turn(i)) - (IF S6Turn(i) = LaneA THEN 1 ELSE 0)
    /\ (last.op = "dequeue" /\ Len(served) < 2 * S6PerLane) => last.res # <<>>
    /\ q.deficit_a \in 0..2000
    /\ q.deficit_b \in 0..2000

C15_S6_Witness ==
    /\ last.op = "dequeue"
    /\ Len(served) = 2 * S6PerLane
    /\ Residents(q) = <<>>

(* C15, as stated: in scenario S6 the dequeues return the exact            *)
(* alternation A, B, A, B, ... and deficit_a and deficit_b stay within     *)
(* [-1000, +1500] throughout.                                              *)
C15_S6_AsStated ==
    /\ \A i \in 1..Len(served) :
          served[i].queue_num = (IF i % 2 = 1 THEN LaneA ELSE LaneB)
    /\ q.deficit_a \in (-1000)..1500
    /\ q.deficit_b \in (-1000)..1500

-----------------------------------------------------------------------------
(* DualFair 1:1 byte fairness: a DualFairQdisc with quantum 1500 over two  *)
(* FIFO lanes receives packets for lane A or lane B in any order, all at   *)
(* one instant; it is peeked at any time and dequeued while both lanes are *)
(* backlogged. The period measured starts at the first dequeue and ends    *)
(* when a lane runs empty: nothing is enqueued after that. The costs       *)
(* offered: 500 (less than the quantum) and 4000 (more than the quantum).  *)

MaxDual == 5

DualCosts == {500, 4000}

InitDual ==
    /\ q = S6Tree
    /\ now = 0
    /\ nextId = 1
    /\ last = NoCall
    /\ okd = {}
    /\ errd = {}
    /\ deqd = {}
    /\ colld = {}
    /\ served = <<>>
    /\ pc = "calls"
    /\ verdicts = EmptyMap
    /\ cur = <<>>
    /\ todo = <<>>

LanesBacklogged == q.q_a.queue # <<>> /\ q.q_b.queue # <<>>

DualEnqueue ==
    /\ nextId <= MaxDual
    /\ served # <<>> => LanesBacklogged
    /\ \E lane \in {LaneA, LaneB}, cost \in DualCosts :
         LET ctx == PacketContext(nextId, nextId, cost, cost, lane, now, FALSE, U32(0, 0))
             r == Enqueue(q, ctx, now)
         IN  /\ q' = r.q
             /\ last' = [op |-> "enqueue", arg |-> <<ctx>>, res |-> r.res]
             /\ okd' = IF r.res = <<>> THEN okd \cup {ctx.id} ELSE okd
             /\ errd' = errd \cup SeqToSet(Ids(r.res))
    /\ nextId' = nextId + 1
    /\ UNCHANGED <<now, deqd, served, colld, pc, verdicts, parts>>

DualDequeue ==
    /\ LanesBacklogged
    /\ DoServe

NextDual == DualEnqueue \/ DoPeek \/ DualDequeue

SpecDual == InitDual /\ [][NextDual]_vars

\* the cumulative cost served from a lane
RECURSIVE CostOf(_, _)
CostOf(s, lane) ==
    IF s = <<>> THEN 0
    ELSE (IF Head(s).queue_num = lane THEN Head(s).cost ELSE 0) + CostOf(Tail(s), lane)

DualGap ==
    LET a == CostOf(served, LaneA)
        b == CostOf(served, LaneB)
    IN  IF a > b THEN a - b ELSE b - a

\* the largest cost among the packets offered so far
LargestCost ==
    LET known == SeqToSet(Residents(q)) \cup SeqToSet(served)
    IN  IF known = {} THEN 0 ELSE CHOOSE m \in {c.cost : c \in known} : \A c \in known : c.cost <= m

-----------------------------------------------------------------------------
(* The resident caps of the leaves: a FifoQdisc or a DrrQdisc built with   *)
(* any hard_limit from 0 up (the constructors take every usize) and a      *)
(* max_latency of 1 s receives packets of two flows at one instant and is  *)
(* peeked, dequeued and collected in any order. FifoQdisc::new(1000, 3)    *)
(* with four packets is scenario S1.                                       *)

MaxCaps == 4

MaxLimit == 3

CapShapes ==
    {FifoQdisc_new(1000, h) : h \in 0..MaxLimit} \cup
    {DrrQdisc_new(1000, h, 1500) : h \in 0..MaxLimit}

InitCaps ==
    /\ q \in CapShapes
    /\ now = 0
    /\ nextId = 1
    /\ last = NoCall
    /\ okd = {}
    /\ errd = {}
    /\ deqd = {}
    /\ colld = {}
    /\ served = <<>>
    /\ pc = "calls"
    /\ verdicts = EmptyMap
    /\ cur = <<>>
    /\ todo = <<>>

CapsEnqueue ==
    /\ nextId <= MaxCaps
    /\ \E key \in {FlowX, FlowY} :
         LET ctx == PacketContext(nextId, key, 1000, 1106, 0, now, FALSE, U32(0, 0))
             r == Enqueue(q, ctx, now)
         IN  /\ q' = r.q
             /\ last' = [op |-> "enqueue", arg |-> <<ctx>>, res |-> r.res]
             /\ okd' = IF r.res = <<>> THEN okd \cup {ctx.id} ELSE okd
             /\ errd' = errd \cup SeqToSet(Ids(r.res))
    /\ nextId' = nextId + 1
    /\ UNCHANGED <<now, deqd, served, colld, pc, verdicts, parts>>

NextCaps == CapsEnqueue \/ DoPeek \/ DoServe \/ DoCollectDropped

SpecCaps == InitCaps /\ [][NextCaps]_vars

\* this step is an enqueue into a FifoQdisc that holds n contexts
FifoEnqueuedAt(n) ==
    /\ q.kind = "fifo"
    /\ nextId' # nextId
    /\ Len(q.queue) = n

\* the head is handed back, the new context is the tail, the rest keeps its order
HeadDropped ==
    /\ q.queue # <<>>
    /\ last'.res = <<Head(q.queue)>>
    /\ q'.queue = Append(Tail(q.queue), last'.arg[1])

\* head-drop of a FifoQdisc whose hard_limit is at least 1
HeadDropAtLimit ==
    [][(FifoEnqueuedAt(q.hard_limit) /\ q.hard_limit >= 1) => HeadDropped]_vars

\* scenario S1 run to its end: enqueue(D) returned Err(A), the dequeues gave
\* B, C, D, nothing is left and nothing was collected
S1Outcome ==
    /\ q.kind = "fifo"
    /\ q.hard_limit = 3
    /\ errd = {1}
    /\ Ids(served) = <<2, 3, 4>>
    /\ colld = {}
    /\ Residents(q) = <<>>

FlowHeld(d, k) == IF k \in DOMAIN d.flows THEN Len(d.flows[k].queue) ELSE 0

\* C18: a FifoQdisc never holds more than hard_limit resident contexts and
\* no flow of a DrrQdisc holds more than hard_limit, for every hard_limit
\* the constructors accept
C18_ResourceCaps ==
    /\ q.kind = "fifo" => Len(q.queue) <= q.hard_limit
    /\ q.kind = "drr" => \A k \in {FlowX, FlowY} : FlowHeld(q, k) <= q.hard_limit

\* the caps of the leaves whose hard_limit is at least 1
CapsFromOne ==
    q.hard_limit >= 1 =>
        /\ q.kind = "fifo" => Len(q.queue) <= q.hard_limit
        /\ q.kind = "drr" => \A k \in {FlowX, FlowY} : FlowHeld(q, k) <= q.hard_limit

-----------------------------------------------------------------------------
(* Per-flow order in the leaves. The ids are given in the order of the     *)
(* enqueue calls, so c1 was enqueued before c2 exactly if c1.id < c2.id.   *)

\* the leaves of Spec, with the order of their dequeues recorded
LeafShapes == {s \in Shapes : s.kind \in {"fifo", "drr"}}

InitOrder ==
    /\ q \in LeafShapes
    /\ now = 0
    /\ nextId = 1
    /\ last = NoCall
    /\ okd = {}
    /\ errd = {}
    /\ deqd = {}
    /\ colld = {}
    /\ served = <<>>
    /\ pc = "calls"
    /\ verdicts = EmptyMap
    /\ cur = <<>>
    /\ todo = <<>>

NextOrder == DoEnqueue \/ DoPeek \/ DoServe \/ DoCollectDropped \/ Tick

SpecOrder == InitOrder /\ [][NextOrder]_vars

\* the contexts of one flow were returned by dequeue in the order of their enqueues
InEnqueueOrder(s) ==
    \A i, j \in 1..Len(s) : (i < j /\ s[i].key = s[j].key) => s[i].id < s[j].id

\* C19: two contexts of the same flow key enqueued into one FifoQdisc or one
\* DrrQdisc and both returned by dequeue are returned in the order of their
\* enqueues, whatever other flows, evictions and expiries occur in between
C19_PerFlowOrder == InEnqueueOrder(served)

\* a DrrQdisc has returned two contexts of one flow after an eviction
C19_Witness ==
    /\ q.kind = "drr"
    /\ errd # {}
    /\ Len(served) = 2
    /\ served[1].key = served[2].key

\* a FifoQdisc has returned a context enqueued after an expired one
C19_WitnessExpiry ==
    /\ q.kind = "fifo"
    /\ colld # {}
    /\ Len(served) = 2

-----------------------------------------------------------------------------
(* Peek idempotence. In a state whose last call was peek, the second of    *)
(* two consecutive peeks is Peek(q, now): no call and no clock step lies   *)
(* between the two.                                                        *)

\* peek from this state keeps every context the qdisc holds and adds none
PeekKeepsContexts ==
    LET held == Ids(Residents(q))
        after == Ids(Residents(Peek(q, now).q))
    IN  Len(after) = Len(held) /\ SeqToSet(after) = SeqToSet(held)

\* C20: for every qdisc two consecutive peek calls with no enqueue, no
\* dequeue and no clock advance in between return the same context, the
\* second call changes no state, and no context is created or lost by peeking
C20_PeekIdempotent ==
    /\ last.op = "peek" => Peek(q, now) = [q |-> q, res |-> last.res]
    /\ PeekKeepsContexts

\* a DualFairQdisc was peeked: the peek credited a deficit and returned a context
C20_Witness ==
    /\ q.kind = "dualfair"
    /\ last.op = "peek"
    /\ last.res # <<>>
    /\ q.deficit_a + q.deficit_b > 0

\* a DrrQdisc was peeked after the clock passed max_latency: the peek moved
\* an expired head to pending_expired and returned a fresh context
C20_WitnessExpiry ==
    /\ q.kind = "drr"
    /\ last.op = "peek"
    /\ last.res # <<>>
    /\ q.pending_expired # <<>>

-----------------------------------------------------------------------------
(* The backlog ledger of MonitorQdisc against the contexts the wrapped     *)
(* tree holds (queued, or expired and not yet collected).                  *)

\* the contexts of one queue_num among s
RECURSIVE OfQueue(_, _)
OfQueue(s, n) ==
    IF s = <<>> THEN <<>>
    ELSE (IF Head(s).queue_num = n THEN <<Head(s)>> ELSE <<>>) \o OfQueue(Tail(s), n)

RECURSIVE CostSum(_)
CostSum(s) == IF s = <<>> THEN 0 ELSE Head(s).cost + CostSum(Tail(s))

\* the queue_num the ledger or the tree knows
LedgerQueues(m) == DOMAIN m.stats \cup {c.queue_num : c \in SeqToSet(Residents(m.inner))}

LedgerExact(m) ==
    \A n \in LedgerQueues(m) :
        LET st == StatOf(m.stats, n)
            inside == OfQueue(Residents(m.inner), n)
        IN  /\ st.backlog_pkts = Len(inside)
            /\ st.backlog_bytes = CostSum(inside)
            /\ st.backlog_pkts >= 0
            /\ st.backlog_bytes >= 0

\* C21: after any sequence of enqueue, dequeue and collect_dropped calls on
\* a MonitorQdisc, backlog_pkts[n] is the number of contexts of queue_num n
\* inside the wrapped tree, backlog_bytes[n] the sum of their costs, and
\* neither is negative
C21_MonitorLedger == q.kind = "monitor" => LedgerExact(q)

\* the ledger as long as no enqueue of the wrapped tree has evicted a resident
LedgerExactWithoutEviction == (q.kind = "monitor" /\ errd = {}) => LedgerExact(q)

-----------------------------------------------------------------------------
(* The modifier chains of main. A modifier is a record with a field kind;  *)
(* Box<dyn PacketModifier> dispatch is the CASE in Process. The payload is *)
(* seen as its length and what TcpAckModifier parses out of it: <<>> or    *)
(* <<ack number>> for a pure ACK. usize arithmetic stays far from 2^64:    *)
(* the copy range caps the payload at 65535 bytes.                         *)

OVERHEAD == 98

OVERHEAD2 == 38

WG_MTU == 1280

ETH_MTU == 1500

COPY_RANGE == 65535

TcpAckModifier_new == [kind |-> "tcp_ack"]

PaddingModifier_new(block_size) == [kind |-> "padding", block_size |-> block_size]

FragmentModifier_new(mtu) == [kind |-> "fragment", mtu |-> mtu]

OverheadModifier_new(overhead_bytes) == [kind |-> "overhead", overhead_bytes |-> overhead_bytes]

TcpAckProcess(c) ==
    IF c.msg.ack = <<>>
    THEN [c EXCEPT !.is_pure_ack = FALSE, !.tcp_ack_num = U32(0, 0)]
    ELSE [c EXCEPT !.is_pure_ack = TRUE, !.tcp_ack_num = c.msg.ack[1]]

\* a padding that rounds down to the block
PaddingFloor(m, c) == [c EXCEPT !.cost = (c.cost \div m.block_size) * m.block_size]

PaddingProcess(m, c) ==
    [c EXCEPT !.cost = ((c.cost + m.block_size - 1) \div m.block_size) * m.block_size]

\* (cost as f64 / mtu as f64).ceil() as usize, exact for these magnitudes
FragmentProcess(m, c) ==
    [c EXCEPT !.frames = Max((c.cost + m.mtu - 1) \div m.mtu, 1)]

OverheadProcess(m, c) == [c EXCEPT !.cost = c.cost + m.overhead_bytes * c.frames]

Process(m, c) ==
    CASE m.kind = "tcp_ack" -> TcpAckProcess(c)
      [] m.kind = "padding" -> PaddingProcess(m, c)
      [] m.kind = "fragment" -> FragmentProcess(m, c)
      [] m.kind = "overhead" -> OverheadProcess(m, c)

\* modifiers.get(&queue_num)
Modifiers(queue_num) ==
    IF queue_num \in {0, 1, 2, 3}
    THEN <<TcpAckModifier_new, PaddingModifier_new(16),
           FragmentModifier_new(WG_MTU), OverheadModifier_new(OVERHEAD)>>
    ELSE <<TcpAckModifier_new, FragmentModifier_new(ETH_MTU), OverheadModifier_new(OVERHEAD2)>>

\* the payload lengths offered: every length up to MaxPayload, the lengths
\* around the two MTUs and their multiples, and the longest payload
MaxPayload == 40

Payloads ==
    0..MaxPayload \cup {1264, 1265, 1279, 1280, 1281, 1499, 1500, 1501, 2560, 2561, 3000, 3001, COPY_RANGE}

\* the context main builds for a received message
Received(len, ack, queue_num) ==
    [msg |-> [len |-> len, ack |-> ack], pkt_len |-> len, cost |-> len,
     queue_num |-> queue_num, frames |-> 1, is_pure_ack |-> FALSE, tcp_ack_num |-> U32(0, 0)]

InitCost ==
    /\ q = FifoQdisc_new(10, 1)
    /\ now = 0
    /\ nextId = 1
    /\ last = NoCall
    /\ okd = {}
    /\ errd = {}
    /\ deqd = {}
    /\ colld = {}
    /\ served = <<>>
    /\ pc = "modify"
    /\ verdicts = EmptyMap
    /\ \E len \in Payloads, ack \in {<<>>, <<U32(0, 100)>>}, queue_num \in 0..5 :
          /\ cur = <<Received(len, ack, queue_num)>>
          /\ todo = Modifiers(queue_num)

\* one turn of: for modifier in modifiers { modifier.process(&mut ctx) }
Modify ==
    /\ todo # <<>>
    /\ cur' = <<Process(Head(todo), cur[1])>>
    /\ todo' = Tail(todo)
    /\ UNCHANGED <<q, now, nextId, last, okd, errd, deqd, colld, served, pc, verdicts>>

NextCost == Modify

SpecCost == InitCost /\ [][NextCost]_vars

\* C22: starting from cost = pkt_len and frames = 1, after each modifier of
\* either configured chain cost >= pkt_len and frames >= 1, and no modifier
\* decreases cost
C22_CostMonotone ==
    [][/\ cur'[1].cost >= cur[1].cost
       /\ cur'[1].cost >= cur'[1].pkt_len
       /\ cur'[1].frames >= 1]_vars

\* a chain has run to its end on a payload that needed padding and more
\* than one frame
C22_Witness ==
    /\ todo = <<>>
    /\ cur[1].frames >= 2
    /\ cur[1].pkt_len % 16 # 0
    /\ cur[1].queue_num \in {0, 1, 2, 3}
    /\ cur[1].cost > cur[1].pkt_len

-----------------------------------------------------------------------------
(* The reserve of RootHtbQdisc seen from the high lane: the root of main   *)
(* (high lane DualFair, default lane Sparse over FIFO and the ACK filter)  *)
(* with a global bucket of 2000 B/s and burst 460, a high bucket of        *)
(* 1000 B/s and burst 300, and reserved_bytes = 300. The default lane      *)
(* receives pure ACKs 100 and 200 of one flow, the high lane pure ACKs.    *)

ReserveTree == RootHtb(2, 2000, 460, 1000, 300, 0)

ReserveInputs == {In(1, 0, Ack100), In(1, 0, Ack200), In(2, 3, Ack100)}

InitReserve ==
    /\ q = ReserveTree
    /\ now = 0
    /\ nextId = 1
    /\ last = NoCall
    /\ okd = {}
    /\ errd = {}
    /\ deqd = {}
    /\ colld = {}
    /\ served = <<>>
    /\ pc = "calls"
    /\ verdicts = EmptyMap
    /\ cur = <<>>
    /\ todo = <<>>

ReserveEnqueue ==
    /\ nextId <= MaxPkts
    /\ \E in \in ReserveInputs :
         LET ctx == PacketContext(nextId, in.key, in.kind.pkt_len, in.kind.cost,
                                  in.queue_num, now,
                                  in.kind.is_pure_ack, in.kind.tcp_ack_num)
             r == Enqueue(q, ctx, now)
         IN  /\ q' = r.q
             /\ last' = [op |-> "enqueue", arg |-> <<ctx>>, res |-> r.res]
             /\ okd' = IF r.res = <<>> THEN okd \cup {ctx.id} ELSE okd
             /\ errd' = errd \cup SeqToSet(Ids(r.res))
    /\ nextId' = nextId + 1
    /\ UNCHANGED <<now, deqd, served, colld, pc, verdicts, parts>>

NextReserve == ReserveEnqueue \/ DoPeek \/ DoDequeue \/ DoCollectDropped \/ Tick

SpecReserve == InitReserve /\ [][NextReserve]_vars

\* this step is a dequeue of the root that returned a default-lane context
DefaultServed == HtbDequeued /\ last'.res # <<>> /\ ~IsHighLane(last'.res[1])

\* the head of the default lane at the call
DefaultHead == Peek(q.default_queue, now).res

\* C23: immediately after RootHtbQdisc.dequeue returns a default-lane
\* context the global bucket still holds at least reserved_bytes tokens,
\* for any child qdiscs
C23_ReserveKept ==
    [][DefaultServed => q'.global_bucket.tokens >= Tokens(q.reserved_bytes)]_vars

\* the headroom is kept whenever the default lane hands out the head it showed
ReserveKeptForHead ==
    [][(DefaultServed /\ last'.res = DefaultHead) =>
          q'.global_bucket.tokens >= Tokens(q.reserved_bytes)]_vars

-----------------------------------------------------------------------------
(* TcpAckFilterQdisc as a wrapper: what a dequeue of the filter does with  *)
(* the contexts its inner qdisc hands out.                                 *)

\* the ACK filter of Spec on its own
FilterShapes == {s \in Shapes : s.kind = "ackfilter"}

InitFilter ==
    /\ q \in FilterShapes
    /\ now = 0
    /\ nextId = 1
    /\ last = NoCall
    /\ okd = {}
    /\ errd = {}
    /\ deqd = {}
    /\ colld = {}
    /\ served = <<>>
    /\ pc = "calls"
    /\ verdicts = EmptyMap
    /\ cur = <<>>
    /\ todo = <<>>

NextFilter == DoEnqueue \/ DoPeek \/ DoDequeue \/ DoCollectDropped \/ Tick

SpecFilter == InitFilter /\ [][NextFilter]_vars

\* the contexts n successive dequeues of a qdisc return, in order
RECURSIVE DequeueRun(_, _, _)
DequeueRun(qd, t, n) ==
    IF n = 0 THEN <<>>
    ELSE LET r == Dequeue(qd, t)
         IN  r.res \o DequeueRun(r.q, t, n - 1)

\* what this step appended to the dropped buffer
NewlyDropped == SubSeq(q'.dropped, Len(q.dropped) + 1, Len(q'.dropped))

\* C24: TcpAckFilterQdisc never moves a context with is_pure_ack = false
\* into its dropped buffer, and what its dequeue drops and returns is what
\* the inner qdisc dequeued, in the order the inner qdisc dequeued it; no
\* other call puts anything into the dropped buffer
C24_OtherTrafficUntouched ==
    [][/\ last'.op \in {"enqueue", "peek", "tick"} => q'.dropped = q.dropped
       /\ last'.op = "dequeue" =>
             /\ Len(q'.dropped) >= Len(q.dropped)
             /\ SubSeq(q'.dropped, 1, Len(q.dropped)) = q.dropped
             /\ \A i \in 1..Len(NewlyDropped) : NewlyDropped[i].is_pure_ack
             /\ DequeueRun(q.inner, now, Len(NewlyDropped) + 1) = NewlyDropped \o last'.res]_vars

\* after an earlier dequeue the filter has dropped a superseded ACK and
\* handed out the ACK behind it
C24_Witness ==
    /\ Len(q.dropped) = 1
    /\ last.op = "dequeue"
    /\ last.res # <<>>
    /\ \E id \in deqd : id # q.dropped[1].id /\ id < last.res[1].id
    /\ last.res[1].is_pure_ack

-----------------------------------------------------------------------------
(* The ACK filter across a sweep of highest_acks: a TcpAckFilterQdisc over *)
(* a DrrQdisc that keeps contexts for 200 s (hard_limit 2) receives two    *)
(* pure ACKs of flow X with any of the ack numbers of AckNums, then data   *)
(* packets of flow Y until packet_counter reaches GcPeriod; the clock may  *)
(* jump by GcIdleSecs after the ACKs, so that the 1024th enqueue sweeps    *)
(* the entry of flow X while its ACKs are still queued. Then the filter is *)
(* peeked, dequeued and collected.                                         *)

GcTree == TcpAckFilterQdisc_new(DrrQdisc_new(200000, 2, 1500))

GcPacket(id, a, t) ==
    IF id <= 2
    THEN PacketContext(id, FlowX, 40, 146, 0, t, TRUE, a)
    ELSE PacketContext(id, FlowY, 1000, 1106, 0, t, FALSE, U32(0, 0))

InitGc ==
    /\ q = GcTree
    /\ now = 0
    /\ nextId = 1
    /\ last = NoCall
    /\ okd = {}
    /\ errd = {}
    /\ deqd = {}
    /\ colld = {}
    /\ served = <<>>
    /\ pc = "calls"
    /\ verdicts = EmptyMap
    /\ cur = <<>>
    /\ todo = <<>>

GcEnqueue ==
    /\ nextId <= GcPeriod
    /\ \E a \in (IF nextId <= 2 THEN AckNums ELSE {U32(0, 0)}) :
         LET r == Enqueue(q, GcPacket(nextId, a, now), now)
         IN  /\ q' = r.q
             /\ last' = [op |-> "enqueue", arg |-> <<GcPacket(nextId, a, now)>>, res |-> r.res]
             /\ okd' = IF r.res = <<>> THEN okd \cup {nextId} ELSE okd
             /\ errd' = errd \cup SeqToSet(Ids(r.res))
    /\ nextId' = nextId + 1
    /\ UNCHANGED <<now, deqd, served, colld, pc, verdicts, parts>>

\* the flow of the ACKs falls silent for GcIdleSecs
GcTick ==
    /\ nextId = 3
    /\ now = 0
    /\ now' = GcIdleSecs * TicksPerSec
    /\ last' = [op |-> "tick", arg |-> <<>>, res |-> <<>>]
    /\ UNCHANGED <<q, nextId, okd, errd, deqd, served, colld, pc, verdicts, parts>>

GcPeek == nextId > GcPeriod /\ DoPeek

GcDequeue == nextId > GcPeriod /\ DoServe

GcCollect == nextId > GcPeriod /\ DoCollectDropped

NextGc == GcEnqueue \/ GcTick \/ GcPeek \/ GcDequeue \/ GcCollect

SpecGc == InitGc /\ [][NextGc]_vars

\* (highest - n) mod 2^32, read as a signed i32, is > 0
StrictlyOlder(n, highest) ==
    LET d == WrappingSub(highest, n)
    IN  d # <<0, 0>> /\ d[1] < Half

\* the filter has an entry for the flow of c
Recorded(c) == c.key \in DOMAIN q.highest_acks

\* what the inner qdisc handed out during this dequeue of the filter
HandedOutNow == DequeueRun(q.inner, now, Len(NewlyDropped) + 1)

\* C25: a pure ACK whose tcp_ack_num equals the recorded highest_ack of its
\* flow, or whose flow has no recorded entry, is returned by the dequeue
\* that takes it from the inner qdisc and not dropped; every context the
\* dequeue drops is a pure ACK of a recorded flow for which
\* (highest - tcp_ack_num) mod 2^32, read as a signed i32, is > 0
C25_DropsOnlyOlder ==
    [][last'.op = "dequeue" =>
          /\ \A i \in 1..Len(NewlyDropped) :
                LET c == NewlyDropped[i]
                IN  /\ c.is_pure_ack
                    /\ Recorded(c)
                    /\ StrictlyOlder(c.tcp_ack_num, q.highest_acks[c.key].ack)
          /\ \A i \in 1..Len(HandedOutNow) :
                LET c == HandedOutNow[i]
                IN  (c.is_pure_ack /\
                       (~Recorded(c) \/ c.tcp_ack_num = q.highest_acks[c.key].ack))
                    => last'.res = <<c>>]_vars

\* the entry of flow X was swept: both ACKs were returned although the
\* second is strictly older than the first
C25_Witness ==
    /\ FlowX \notin DOMAIN q.highest_acks
    /\ Len(served) >= 2
    /\ \E i, j \in 1..Len(served) :
          /\ served[i].id = 1
          /\ served[j].id = 2
          /\ StrictlyOlder(served[j].tcp_ack_num, served[i].tcp_ack_num)

\* a duplicate of the highest ACK was returned
C25_WitnessDuplicate ==
    /\ FlowX \in DOMAIN q.highest_acks
    /\ \E i, j \in 1..Len(served) :
          /\ served[i].id = 1
          /\ served[j].id = 2
          /\ served[i].tcp_ack_num = served[j].tcp_ack_num

\* an ACK older across the rollover was dropped
C25_WitnessRollover ==
    /\ q.dropped # <<>>
    /\ q.dropped[1].tcp_ack_num = U32(65535, 65500)
    /\ q.highest_acks[FlowX].ack = U32(0, 100)

-----------------------------------------------------------------------------
(* Weighted share of ClassDrrQdisc: the bulk leaf of main (classes 0 and 1 *)
(* with quanta 1500 and 15000, each over a DrrQdisc::new(100, 2048, 1500)) *)
(* receives ShareSmall packets on queue 0 and then ShareBulk packets on    *)
(* queue 1; the clock may pass the latency of the inner qdiscs once while  *)
(* packets are being enqueued. Once everything is enqueued the qdisc is    *)
(* dequeued.                                                               *)

ShareSmall == 18
ShareBulk == 72

ShareTree == ClassDrrQdisc_new(BulkClassifier, DrrQdisc_new(100, 2048, 1500))

SharePacket(id, t) ==
    IF id <= ShareSmall
    THEN PacketContext(id, FlowX, Data.pkt_len, Data.cost, 0, t, FALSE, U32(0, 0))
    ELSE PacketContext(id, FlowY, Data.pkt_len, Data.cost, 1, t, FALSE, U32(0, 0))

InitShare ==
    /\ q = ShareTree
    /\ now = 0
    /\ nextId = 1
    /\ last = NoCall
    /\ okd = {}
    /\ errd = {}
    /\ deqd = {}
    /\ colld = {}
    /\ served = <<>>
    /\ pc = "calls"
    /\ verdicts = EmptyMap
    /\ cur = <<>>
    /\ todo = <<>>

ShareEnqueue ==
    /\ nextId <= ShareSmall + ShareBulk
    /\ LET r == Enqueue(q, SharePacket(nextId, now), now)
       IN  /\ q' = r.q
           /\ last' = [op |-> "enqueue", arg |-> <<SharePacket(nextId, now)>>, res |-> r.res]
           /\ okd' = IF r.res = <<>> THEN okd \cup {nextId} ELSE okd
           /\ errd' = errd \cup SeqToSet(Ids(r.res))
    /\ nextId' = nextId + 1
    /\ UNCHANGED <<now, deqd, served, colld, pc, verdicts, parts>>

\* the packets enqueued so far outlive max_latency of the inner qdiscs
ShareTick ==
    /\ now = 0
    /\ nextId \in 2..(ShareSmall + ShareBulk)
    /\ now' = 100 * TicksPerMs + 1
    /\ last' = [op |-> "tick", arg |-> <<>>, res |-> <<>>]
    /\ UNCHANGED <<q, nextId, okd, errd, deqd, served, colld, pc, verdicts, parts>>

ShareServe == nextId > ShareSmall + ShareBulk /\ DoServe

NextShare == ShareEnqueue \/ ShareTick \/ DoPeek \/ ShareServe \/ DoCollectDropped

SpecShare == InitShare /\ [][NextShare]_vars

\* both classes have a context to serve
ClassesBacklogged ==
    /\ DOMAIN q.classes = {0, 1}
    /\ \A id \in {0, 1} : Peek(q.classes[id].inner_qdisc, now).res # <<>>

\* the quanta of the two classes are in the ratio 1 : ShareRatio
ShareRatio == BulkClassifier[1][2] \div BulkClassifier[0][2]

\* the distance of the served costs from the ratio 1500 : 15000, in units
\* of the cost of class 1
ShareGap ==
    LET a == ShareRatio * CostOf(served, 0)
        b == CostOf(served, 1)
    IN  IF a > b THEN a - b ELSE b - a

\* one round: each class is one credit and one remaining deficit (below
\* quantum + the largest cost) away from its share
ShareRound ==
    LET q0 == BulkClassifier[0][2]
        q1 == BulkClassifier[1][2]
    IN  q1 + ShareRatio * (q0 + Data.cost) + (q1 + Data.cost)

\* each class is in the ring once
RingOnce ==
    \A i, j \in 1..Len(q.active_classes) :
        q.active_classes[i] = q.active_classes[j] => i = j

\* C26: while classes 0 and 1 (quanta 1500 and 15000) stay backlogged, the
\* costs served to them stay in the ratio 1500 : 15000 up to one round,
\* also after packets of a class expired inside its inner qdisc
C26_WeightedShare == ClassesBacklogged => ShareGap <= ShareRound

\* the share is kept whenever no class is in the ring twice
ShareKeptOnProperRing == (ClassesBacklogged /\ RingOnce) => ShareGap <= ShareRound

\* both classes have been served for more than two rounds on a proper ring
ShareServedRounds ==
    /\ ClassesBacklogged
    /\ RingOnce
    /\ CostOf(served, 1) > 2 * BulkClassifier[1][2]
    /\ CostOf(served, 0) > 2 * BulkClassifier[0][2]

-----------------------------------------------------------------------------
(* Deficits of ClassDrrQdisc: the bulk leaf with a limit of 2 per flow     *)
(* receives data packets and packets of several frames on queue 0 and pure *)
(* ACKs on queue 1, in any interleaving with peek, dequeue,                *)
(* collect_dropped and the clock.                                          *)

MaxClass == 3

\* a payload of 3800 bytes on queue 0: padded to 3808, 3 frames of WG_MTU
Jumbo == [pkt_len |-> 3800, cost |-> 3808 + 3 * OVERHEAD, is_pure_ack |-> FALSE,
          tcp_ack_num |-> U32(0, 0)]

ClassInputs == {In(FlowX, 0, Data), In(FlowX, 0, Jumbo), In(FlowY, 1, Ack100)}

InitClass ==
    /\ q = ClassDrrQdisc_new(BulkClassifier, DrrQdisc_new(100, 2, 1500))
    /\ now = 0
    /\ nextId = 1
    /\ last = NoCall
    /\ okd = {}
    /\ errd = {}
    /\ deqd = {}
    /\ colld = {}
    /\ served = <<>>
    /\ pc = "calls"
    /\ verdicts = EmptyMap
    /\ cur = <<>>
    /\ todo = <<>>

ClassEnqueue ==
    /\ nextId <= MaxClass
    /\ \E in \in ClassInputs :
         LET ctx == PacketContext(nextId, in.key, in.kind.pkt_len, in.kind.cost,
                                  in.queue_num, now,
                                  in.kind.is_pure_ack, in.kind.tcp_ack_num)
             r == Enqueue(q, ctx, now)
         IN  /\ q' = r.q
             /\ last' = [op |-> "enqueue", arg |-> <<ctx>>, res |-> r.res]
             /\ okd' = IF r.res = <<>> THEN okd \cup {ctx.id} ELSE okd
             /\ errd' = errd \cup SeqToSet(Ids(r.res))
    /\ nextId' = nextId + 1
    /\ UNCHANGED <<now, deqd, served, colld, pc, verdicts, parts>>

NextClass == ClassEnqueue \/ DoPeek \/ DoDequeue \/ DoCollectDropped \/ Tick

SpecClass == InitClass /\ [][NextClass]_vars

\* the largest cost offered to a class
LargestOffered(class_id) ==
    LET costs == {in.kind.cost : in \in {i \in ClassInputs :
                                          BulkClassifier[i.queue_num][1] = class_id}}
    IN  CHOOSE m \in costs : \A c \in costs : c <= m

\* every class deficit is in [0, quantum + largest head cost)
DeficitsInRange(c) ==
    \A id \in DOMAIN c.classes :
        /\ c.classes[id].deficit >= 0
        /\ c.classes[id].deficit < c.classes[id].quantum + LargestOffered(id)

\* a dequeue that returns a context of class id: the class was at the front
\* of the ring after prepare_next_ready_class with a deficit that covers
\* the head of its inner qdisc, the head is the context returned, and the
\* deficit is reduced by its cost
ServedWithinDeficit ==
    LET p == PrepareNextReadyClass(q, now)
        id == Head(p.q.active_classes)
        head == Peek(p.q.classes[id].inner_qdisc, now).res
        c == last'.res[1]
    IN  /\ p.res
        /\ id = BulkClassifier[c.queue_num][1]
        /\ head = <<c>>
        /\ p.q.classes[id].deficit >= c.cost
        /\ q'.classes[id].deficit = p.q.classes[id].deficit - c.cost
        /\ \A o \in DOMAIN q'.classes \ {id} :
              q'.classes[o].deficit = p.q.classes[o].deficit

-----------------------------------------------------------------------------
(* The ring of DrrQdisc: a DrrQdisc::new(100, 2, 1500) receives pure ACKs  *)
(* of flow 1, packets longer than the quantum of flow 2 and data of flow 3 *)
(* in any interleaving with peek, dequeue, collect_dropped and the clock.  *)

MaxRing == 3

FlowZ == 3

RingInputs == {In(FlowX, 0, Ack100), In(FlowY, 0, Jumbo), In(FlowZ, 1, Data)}

InitRing ==
    /\ q = DrrQdisc_new(100, 2, 1500)
    /\ now = 0
    /\ nextId = 1
    /\ last = NoCall
    /\ okd = {}
    /\ errd = {}
    /\ deqd = {}
    /\ colld = {}
    /\ served = <<>>
    /\ pc = "calls"
    /\ verdicts = EmptyMap
    /\ cur = <<>>
    /\ todo = <<>>

RingEnqueue ==
    /\ nextId <= MaxRing
    /\ \E in \in RingInputs :
         LET ctx == PacketContext(nextId, in.key, in.kind.pkt_len, in.kind.cost,
                                  in.queue_num, now,
                                  in.kind.is_pure_ack, in.kind.tcp_ack_num)
             r == Enqueue(q, ctx, now)
         IN  /\ q' = r.q
             /\ last' = [op |-> "enqueue", arg |-> <<ctx>>, res |-> r.res]
             /\ okd' = IF r.res = <<>> THEN okd \cup {ctx.id} ELSE okd
             /\ errd' = errd \cup SeqToSet(Ids(r.res))
    /\ nextId' = nextId + 1
    /\ UNCHANGED <<now, deqd, served, colld, pc, verdicts, parts>>

NextRing == RingEnqueue \/ DoPeek \/ DoDequeue \/ DoCollectDropped \/ Tick

SpecRing == InitRing /\ [][NextRing]_vars

\* the ring holds exactly the keys of the flow table, each once, and no
\* flow of the table has an empty FIFO
RingIsTable(d) ==
    /\ Len(d.active_queue) = Cardinality(DOMAIN d.flows)
    /\ SeqToSet(d.active_queue) = DOMAIN d.flows
    /\ \A k \in DOMAIN d.flows : d.flows[k].queue # <<>>

\* b is a turned by some number of places
IsRotation(a, b) ==
    \E n \in 0..Len(a) : b = SubSeq(a, n + 1, Len(a)) \o SubSeq(a, 1, n)

\* the position of key k in ring r
PlaceOf(r, k) == CHOOSE i \in 1..Len(r) : r[i] = k

\* what one call of prepare_next_ready_flow did to the ring, from d to e at
\* time t: only flows whose packets were all stale left the table; the
\* flows that stay keep their cyclic order; each was credited a whole
\* number of quanta, the last of them while its deficit was below its head;
\* the flows ahead of the new front were credited and are now behind it;
\* the new front can pay for its head
RingScanned(d, e, t) ==
    LET kept == SelectSeq(d.active_queue, LAMBDA k : k \in DOMAIN e.flows)
    IN  /\ DOMAIN e.flows \subseteq DOMAIN d.flows
        /\ \A k \in DOMAIN d.flows \ DOMAIN e.flows :
              \A i \in 1..Len(d.flows[k].queue) :
                  IsStale(d.flows[k].queue[i], t, d.max_latency)
        /\ IsRotation(kept, e.active_queue)
        /\ \A k \in DOMAIN e.flows :
              LET credit == e.flows[k].deficit - d.flows[k].deficit
              IN  /\ credit >= 0
                  /\ credit % d.quantum = 0
                  /\ credit > 0 =>
                        e.flows[k].deficit - d.quantum < Head(e.flows[k].queue).pkt_len
        /\ e.active_queue # <<>> =>
              LET front == Head(e.active_queue)
              IN  /\ e.flows[front].deficit >= Head(e.flows[front].queue).pkt_len
                  /\ ~IsStale(Head(e.flows[front].queue), t, d.max_latency)
                  /\ \A i \in 1..(PlaceOf(kept, front) - 1) :
                        e.flows[kept[i]].deficit > d.flows[kept[i]].deficit

\* the tail of dequeue, from the scanned ring p to e: the front flow gives
\* its head and leaves ring and table when that was its last packet
RingServed(p, e, res) ==
    IF res = <<>>
    THEN p.active_queue = <<>> /\ e = p
    ELSE LET front == Head(p.active_queue)
         IN  /\ res = <<Head(p.flows[front].queue)>>
             /\ IF Len(p.flows[front].queue) = 1
                THEN /\ front \notin DOMAIN e.flows
                     /\ e.active_queue = Tail(p.active_queue)
                ELSE /\ e.active_queue = p.active_queue
                     /\ e.flows[front].queue = Tail(p.flows[front].queue)

\* C28: after every enqueue, peek and dequeue of a DrrQdisc the ring holds
\* exactly the keys of the flow table, each once, and every flow of the
\* table has a non-empty FIFO; a new flow enters at the front of the ring;
\* a flow whose deficit is below its head's pkt_len is credited one quantum
\* and moved to the tail; a flow that becomes empty, by dequeue or by
\* expiry, leaves both ring and table
C28_RingStructure ==
    [][/\ RingIsTable(q')
       /\ last'.op = "enqueue" =>
             q'.active_queue = IF last'.arg[1].key \in DOMAIN q.flows
                               THEN q.active_queue
                               ELSE <<last'.arg[1].key>> \o q.active_queue
       /\ last'.op = "peek" => RingScanned(q, q', now)
       /\ last'.op = "dequeue" =>
             /\ RingScanned(q, Peek(q, now).q, now)
             /\ RingServed(Peek(q, now).q, q', last'.res)]_vars

\* three flows in the ring, the front one credited and moved behind the
\* others by a peek
C28_Witness ==
    /\ last.op = "peek"
    /\ Len(q.active_queue) = 3
    /\ q.active_queue[3] = FlowY
    /\ q.flows[FlowY].deficit > q.quantum

\* a flow left ring and table by expiry while another stayed
C28_WitnessExpiry ==
    /\ last.op = "peek"
    /\ Len(q.active_queue) = 1
    /\ \E i \in 1..Len(q.pending_expired) :
          q.pending_expired[i].key \notin DOMAIN q.flows

-----------------------------------------------------------------------------
(* Deficits of DualFairQdisc: the high-priority qdisc of main with a limit *)
(* of 2 receives, on queue 3 (lane B), a data packet of 1240 bytes and     *)
(* pure ACKs 100 and 200 of one flow and, on queue 2 (lane A), data of     *)
(* another flow, in any interleaving with peek, dequeue, collect_dropped   *)
(* and the clock.                                                          *)

MaxIdle == 3

\* a payload of 1240 bytes on queue 3: padded to 1248, one frame of WG_MTU
Large == [pkt_len |-> 1240, cost |-> 1248 + OVERHEAD, is_pure_ack |-> FALSE,
          tcp_ack_num |-> U32(0, 0)]

IdleInputs ==
    {In(FlowX, 3, Large), In(FlowX, 3, Ack100), In(FlowX, 3, Ack200), In(FlowY, 2, Data)}

InitIdle ==
    /\ q = HighQdisc(2)
    /\ now = 0
    /\ nextId = 1
    /\ last = NoCall
    /\ okd = {}
    /\ errd = {}
    /\ deqd = {}
    /\ colld = {}
    /\ served = <<>>
    /\ pc = "calls"
    /\ verdicts = EmptyMap
    /\ cur = <<>>
    /\ todo = <<>>

IdleEnqueue ==
    /\ nextId <= MaxIdle
    /\ \E in \in IdleInputs :
         LET ctx == PacketContext(nextId, in.key, in.kind.pkt_len, in.kind.cost,
                                  in.queue_num, now,
                                  in.kind.is_pure_ack, in.kind.tcp_ack_num)
             r == Enqueue(q, ctx, now)
         IN  /\ q' = r.q
             /\ last' = [op |-> "enqueue", arg |-> <<ctx>>, res |-> r.res]
             /\ okd' = IF r.res = <<>> THEN okd \cup {ctx.id} ELSE okd
             /\ errd' = errd \cup SeqToSet(Ids(r.res))
    /\ nextId' = nextId + 1
    /\ UNCHANGED <<now, deqd, served, colld, pc, verdicts, parts>>

NextIdle == IdleEnqueue \/ DoPeek \/ DoDequeue \/ DoCollectDropped \/ Tick

SpecIdle == InitIdle /\ [][NextIdle]_vars

\* the largest cost offered
LargestHead ==
    CHOOSE m \in {in.kind.cost : in \in IdleInputs} :
        \A in \in IdleInputs : in.kind.cost <= m

LaneAEmpty == Peek(q.q_a, now).res = <<>>
LaneBEmpty == Peek(q.q_b, now).res = <<>>

\* what a peek or dequeue does about idle lanes: with both lanes empty both
\* deficits become 0; a lane that is empty on its turn has its deficit set
\* to 0
IdleLanesReset ==
    last'.op \in {"peek", "dequeue"} =>
        /\ (LaneAEmpty /\ LaneBEmpty) => (q'.deficit_a = 0 /\ q'.deficit_b = 0)
        /\ (q.turn_a /\ LaneAEmpty) => q'.deficit_a = 0
        /\ (~q.turn_a /\ LaneBEmpty) => q'.deficit_b = 0

DeficitsBelowRound(d) ==
    /\ d.deficit_a < d.quantum + LargestHead
    /\ d.deficit_b < d.quantum + LargestHead

DeficitsNotNegative(d) == d.deficit_a >= 0 /\ d.deficit_b >= 0

\* C29: a peek or dequeue of a DualFairQdisc that finds both lanes empty
\* leaves deficit_a = deficit_b = 0; a lane found empty on its turn has its
\* deficit set to 0; after any sequence of operations each lane's deficit
\* is at least 0 and below quantum plus the largest head cost
C29_IdleCorrect ==
    [][/\ IdleLanesReset
       /\ DeficitsBelowRound(q')
       /\ DeficitsNotNegative(q')]_vars

\* the resets and the upper bound by themselves
IdleResetsAndCeiling == [][IdleLanesReset /\ DeficitsBelowRound(q')]_vars

\* a deficit goes below 0 only on a dequeue whose lane returned another
\* context than the one it peeked
NegativeOnlyByOtherHead ==
    [][(DeficitsNotNegative(q) /\ ~DeficitsNotNegative(q')) =>
          /\ last'.op = "dequeue"
          /\ last'.res # <<>>
          /\ last'.res # Peek(q, now).res]_vars

\* a lane with credit was found empty on its turn and reset while the
\* other lane was served
IdleLaneWasReset ==
    /\ last.op = "dequeue"
    /\ last.res # <<>>
    /\ last.res[1].queue_num = 2
    /\ q.deficit_b = 0
    /\ q.deficit_a > 0
    /\ \E i \in deqd : i # last.res[1].id

-----------------------------------------------------------------------------
(* TokenBucket by itself: q is a bucket of some rate and burst, consume    *)
(* and can_spend are called with several amounts while the clock advances  *)
(* by one tick (not above the refill threshold of 100 us) or more.         *)

MaxBucketTime == 8

BucketRates == {1000, 2500}
BucketBursts == {0, 300, 440}
BucketAmounts == {0, 146, 300, 1106}
BucketTicks == {1, 2, 5}

InitBucket ==
    /\ \E rate \in BucketRates, burst \in BucketBursts : q = TokenBucket_new(rate, burst, 0)
    /\ now = 0
    /\ nextId = 1
    /\ last = NoCall
    /\ okd = {}
    /\ errd = {}
    /\ deqd = {}
    /\ colld = {}
    /\ served = <<>>
    /\ pc = "calls"
    /\ verdicts = EmptyMap
    /\ cur = <<>>
    /\ todo = <<>>

BucketConsume ==
    /\ \E amount \in BucketAmounts :
         LET r == Consume(q, amount, now)
         IN  /\ q' = r.b
             /\ last' = [op |-> "consume", arg |-> <<amount>>, res |-> <<r.res>>]
    /\ UNCHANGED <<now, nextId, okd, errd, deqd, served, colld, pc, verdicts, parts>>

BucketCanSpend ==
    /\ \E amount \in BucketAmounts :
         LET r == CanSpend(q, amount, now)
         IN  /\ q' = r.b
             /\ last' = [op |-> "can_spend", arg |-> <<amount>>, res |-> <<r.res>>]
    /\ UNCHANGED <<now, nextId, okd, errd, deqd, served, colld, pc, verdicts, parts>>

BucketTick ==
    /\ \E d \in BucketTicks : now + d <= MaxBucketTime /\ now' = now + d
    /\ last' = [op |-> "tick", arg |-> <<>>, res |-> <<>>]
    /\ UNCHANGED <<q, nextId, okd, errd, deqd, served, colld, pc, verdicts, parts>>

NextBucket == BucketConsume \/ BucketCanSpend \/ BucketTick

SpecBucket == InitBucket /\ [][NextBucket]_vars

\* the tokens after the refill of a call at time t: rate * elapsed is added,
\* up to capacity, when more than 100 us have passed since last_update
Refilled(b, t) ==
    IF t - b.last_update > RefillThreshold
    THEN Min(b.tokens + b.rate * (t - b.last_update), b.capacity)
    ELSE b.tokens

\* C30: after any sequence of refill, can_spend and consume calls of a
\* TokenBucket 0 <= tokens <= capacity; consume(n) subtracts exactly n and
\* returns true, only when tokens >= n after the refill, or returns false
\* and leaves the tokens undebited; can_spend(n) never debits tokens
C30_BucketBounds ==
    [][/\ q'.tokens >= 0
       /\ q'.tokens <= q'.capacity
       /\ last'.op = "consume" =>
             IF last'.res[1]
             THEN /\ Refilled(q, now) >= Tokens(last'.arg[1])
                  /\ q'.tokens = Refilled(q, now) - Tokens(last'.arg[1])
             ELSE /\ Refilled(q, now) < Tokens(last'.arg[1])
                  /\ q'.tokens = Refilled(q, now)
       /\ last'.op = "can_spend" =>
             /\ q'.tokens = Refilled(q, now)
             /\ q'.tokens >= q.tokens
             /\ last'.res[1] = (Refilled(q, now) >= Tokens(last'.arg[1]))]_vars

\* a consume of 300 was refused by a bucket that was refilled and holds
\* less than its capacity because an earlier consume was honoured
C30_Witness ==
    /\ last.op = "consume"
    /\ last.arg = <<300>>
    /\ ~last.res[1]
    /\ q.tokens > 0
    /\ q.tokens < q.capacity
    /\ q.last_update > 0

-----------------------------------------------------------------------------
(* The receive loop of main by itself. todo holds the number of messages   *)
(* waiting in each of the six kernel queues; cur holds the loop's locals:  *)
(* packet_count, the index i of the queue polled next and no_packet. The   *)
(* first QueuesLive queues hold BatchFeed messages each at the start, the  *)
(* others none. A recv() that fails is `continue`: the poll moves on to    *)
(* the next queue within the same step.                                    *)

BatchFeed == 3400

NumQueues == 6

StartOfBatch == [packet_count |-> 0, i |-> 0, no_packet |-> TRUE]

InitBatch ==
    /\ q = MainPipeline
    /\ now = 0
    /\ nextId = 1
    /\ last = NoCall
    /\ okd = {}
    /\ errd = {}
    /\ deqd = {}
    /\ colld = {}
    /\ served = <<>>
    /\ pc = "recv"
    /\ verdicts = EmptyMap
    /\ cur = <<StartOfBatch>>
    /\ \E live \in 1..NumQueues :
          todo = [n \in 1..NumQueues |-> IF n <= live THEN BatchFeed ELSE 0]

\* the queues from index i on that have a message
Waiting(i) == {n \in i..(NumQueues - 1) : todo[n + 1] > 0}

\* for i in 0..6: queues[i].recv() returned Ok(msg) for the first queue at
\* or after cur.i that has a message; the context is built and enqueued
BatchRecv ==
    /\ pc = "recv"
    /\ Waiting(cur[1].i) # {}
    /\ LET i == CHOOSE n \in Waiting(cur[1].i) : \A m \in Waiting(cur[1].i) : n <= m
           ctx == PacketContext(nextId, i + 1, Ack100.pkt_len, Ack100.cost, i, now,
                                Ack100.is_pure_ack, Ack100.tcp_ack_num)
           r == Enqueue(q, ctx, now)
       IN  /\ q' = r.q
           /\ last' = [op |-> "enqueue", arg |-> <<ctx>>, res |-> r.res]
           /\ todo' = [todo EXCEPT ![i + 1] = @ - 1]
           /\ cur' = <<[packet_count |-> cur[1].packet_count + 1, i |-> i + 1,
                        no_packet |-> FALSE]>>
    /\ nextId' = nextId + 1
    /\ UNCHANGED <<now, okd, errd, deqd, served, colld, pc, verdicts>>

\* the for loop is through and the round had a message: if packet_count >=
\* BATCH_LIMIT { break } at the top of the next round
BatchRound ==
    /\ pc = "recv"
    /\ Waiting(cur[1].i) = {}
    /\ ~cur[1].no_packet
    /\ IF cur[1].packet_count >= BATCH_LIMIT
       THEN pc' = "send" /\ cur' = cur
       ELSE pc' = pc /\ cur' = <<[cur[1] EXCEPT !.i = 0, !.no_packet = TRUE]>>
    /\ UNCHANGED <<q, now, nextId, last, okd, errd, deqd, served, colld, verdicts, todo>>

\* if no_packet { break }
BatchNoPacket ==
    /\ pc = "recv"
    /\ Waiting(cur[1].i) = {}
    /\ cur[1].no_packet
    /\ pc' = "send"
    /\ UNCHANGED <<q, now, nextId, last, okd, errd, deqd, served, colld, verdicts, parts>>

\* the reap, and let mut packet_count = 0 of the next pass
BatchReap ==
    /\ pc = "reap"
    /\ LET r == CollectDropped(q)
       IN  /\ q' = r.q
           /\ last' = [op |-> "collect_dropped", arg |-> <<>>, res |-> r.res]
           /\ colld' = colld \cup SeqToSet(Ids(r.res))
    /\ pc' = "recv"
    /\ cur' = <<StartOfBatch>>
    /\ UNCHANGED <<now, nextId, okd, errd, deqd, served, verdicts, todo>>

NextBatch == BatchRecv \/ BatchRound \/ BatchNoPacket \/ MainSend \/ BatchReap

SpecBatch == InitBatch /\ [][NextBatch]_vars

\* C31: in one pass of the ingestion loop the number of messages received
\* from the six input queues before draining starts never exceeds
\* BATCH_LIMIT
C31_BatchLimit == cur[1].packet_count <= BATCH_LIMIT

\* what the loop keeps: the limit is passed by less than one round of the
\* six queues
BatchWithinOneRound == cur[1].packet_count < BATCH_LIMIT + NumQueues - 1

\* a batch was ended by the limit
BatchEndedByLimit == pc = "send" /\ cur[1].packet_count >= BATCH_LIMIT

-----------------------------------------------------------------------------
(* Routing in the assembled tree: the pipeline of main receives contexts   *)
(* of two flows on any of the kernel queues 0..5, in any interleaving with *)
(* dequeue and collect_dropped. A context whose enqueue reaches a panic!() *)
(* branch of a classifier is recorded as the call "panic".                 *)

MaxRoute == 3

RouteEnqueue ==
    /\ nextId <= MaxRoute
    /\ \E queue_num \in 0..(NumQueues - 1), key \in {FlowX, FlowY} :
         LET ctx == PacketContext(nextId, key, Ack100.pkt_len, Ack100.cost, queue_num,
                                  now, Ack100.is_pure_ack, Ack100.tcp_ack_num)
         IN  IF Panics(q, ctx)
             THEN /\ q' = q
                  /\ last' = [op |-> "panic", arg |-> <<ctx>>, res |-> <<>>]
                  /\ UNCHANGED <<okd, errd>>
             ELSE LET r == Enqueue(q, ctx, now)
                  IN  /\ q' = r.q
                      /\ last' = [op |-> "enqueue", arg |-> <<ctx>>, res |-> r.res]
                      /\ okd' = IF r.res = <<>> THEN okd \cup {ctx.id} ELSE okd
                      /\ errd' = errd \cup SeqToSet(Ids(r.res))
    /\ nextId' = nextId + 1
    /\ UNCHANGED <<now, deqd, served, colld, pc, verdicts, parts>>

InitRoute ==
    /\ q = MainPipeline
    /\ now = 0
    /\ nextId = 1
    /\ last = NoCall
    /\ okd = {}
    /\ errd = {}
    /\ deqd = {}
    /\ colld = {}
    /\ served = <<>>
    /\ pc = "calls"
    /\ verdicts = EmptyMap
    /\ cur = <<>>
    /\ todo = <<>>

NextRoute == RouteEnqueue \/ DoDequeue \/ DoCollectDropped

SpecRoute == InitRoute /\ [][NextRoute]_vars

\* the root qdisc under the monitor
Root(m) == m.inner

\* pipeline.enqueue(c) calls the classifier of the DualFairQdisc: the root
\* classifier returned true
ReachesVip(m, c) == c.queue_num \in Root(m).classifier

\* pipeline.enqueue(c) calls the classifier of the ClassDrrQdisc: the root
\* classifier returned false and the SparseQdisc of the default lane has
\* contexts of the flow in flight
ReachesBulk(m, c) ==
    /\ c.queue_num \notin Root(m).classifier
    /\ c.key \in DOMAIN Root(m).default_queue.flow_counts
    /\ Root(m).default_queue.flow_counts[c.key] # 0

\* C32: in the assembled tree, for every context with queue_num in 0..5,
\* the root classifier sends queue_num 2 and 3 to the high lane and all
\* others to the default lane; the DualFair classifier only sees queue_num
\* 2 or 3 and the ClassDrr classifier only 0, 1, 4 or 5; no panic branch of
\* a classifier is reached
C32_ClassifierTotal ==
    [][last'.op \in {"enqueue", "panic"} =>
          LET c == last'.arg[1]
          IN  /\ last'.op # "panic"
              /\ ReachesVip(q, c) <=> c.queue_num \in {2, 3}
              /\ ReachesVip(q, c) =>
                    /\ c.queue_num \in DOMAIN Root(q).high_queue.classifier
                    /\ Root(q').default_queue = Root(q).default_queue
                    /\ c.id \in ResidentIds(IF c.queue_num = 2
                                            THEN Root(q').high_queue.q_a
                                            ELSE Root(q').high_queue.q_b)
              /\ ~ReachesVip(q, c) =>
                    /\ Root(q').high_queue = Root(q).high_queue
                    /\ c.id \in ResidentIds(Root(q').default_queue)
              /\ ReachesBulk(q, c) =>
                    /\ c.queue_num \in {0, 1, 4, 5}
                    /\ c.queue_num \in DOMAIN Root(q).default_queue.bulk_qdisc.inner.classifier
                    /\ c.id \in ResidentIds(Root(q').default_queue.bulk_qdisc)]_vars

\* both classes of the ClassDrrQdisc were created, one from queue 4 or 0
\* and one from queue 5 or 1
C32_Witness ==
    /\ DOMAIN Root(q).default_queue.bulk_qdisc.inner.classes = {0, 1}
    /\ last.op = "enqueue"
    /\ last.arg[1].queue_num \in {4, 5}

\* both lanes of the DualFairQdisc hold a context
C32_WitnessVip ==
    /\ Residents(Root(q).high_queue.q_a) # <<>>
    /\ Residents(Root(q).high_queue.q_b) # <<>>

-----------------------------------------------------------------------------
(* The queue a verdict is sent on. The ingestion loop over the pipeline of *)
(* main receives packets of three flows on the kernel queues 0 and 1,      *)
(* which share the default lane, and 3. verdicts keeps, for each message,  *)
(* the verdicts issued for it: the verdict, the phase that issued it, the      *)
(* queue the message was received from and the index of the queue the      *)
(* verdict was sent on.                                                    *)

MaxVerdict == 3

VerdictQueues == {0, 1, 3}

\* queues[on(ctx)].verdict(msg) for every context of ctxs
IssueOn(v, ctxs, verdict, by, on(_)) ==
    LET ids == SeqToSet(Ids(ctxs))
        ctxOf(id) == CHOOSE c \in SeqToSet(ctxs) : c.id = id
        rec(c) == [verdict |-> verdict, by |-> by, from |-> c.queue_num, on |-> on(c)]
    IN  [id \in DOMAIN v \cup ids |->
            IF id \in ids
            THEN (IF id \in DOMAIN v THEN v[id] ELSE <<>>) \o <<rec(ctxOf(id))>>
            ELSE v[id]]

\* queues[i].recv() returned Ok(msg): the context is enqueued and what
\* enqueue hands back is dropped through queues[i]
VerdictRecv ==
    /\ pc = "recv"
    /\ nextId <= MaxVerdict
    /\ \E i \in VerdictQueues, key \in {FlowX, FlowY, FlowZ} :
         LET ctx == PacketContext(nextId, key, Ack100.pkt_len, Ack100.cost, i, now,
                                  Ack100.is_pure_ack, Ack100.tcp_ack_num)
             r == Enqueue(q, ctx, now)
             polled(c) == i
         IN  /\ q' = r.q
             /\ last' = [op |-> "enqueue", arg |-> <<ctx>>, res |-> r.res]
             /\ okd' = IF r.res = <<>> THEN okd \cup {ctx.id} ELSE okd
             /\ errd' = errd \cup SeqToSet(Ids(r.res))
             /\ verdicts' = IssueOn(verdicts, r.res, "DROP", "recv", polled)
    /\ nextId' = nextId + 1
    /\ UNCHANGED <<now, deqd, served, colld, pc, parts>>

\* one pass of the send loop: queues[msg.queue_num].verdict(ACCEPT)
VerdictSend ==
    /\ pc = "send"
    /\ LET r == Dequeue(q, now)
           own(c) == c.queue_num
       IN  /\ q' = r.q
           /\ last' = [op |-> "dequeue", arg |-> <<>>, res |-> r.res]
           /\ deqd' = deqd \cup SeqToSet(Ids(r.res))
           /\ verdicts' = IssueOn(verdicts, r.res, "ACCEPT", "send", own)
           /\ pc' = IF r.res = <<>> THEN "reap" ELSE "send"
    /\ UNCHANGED <<now, nextId, okd, errd, served, colld, parts>>

\* the reap: queues[ctx.queue_num].verdict(DROP) for every collected context
VerdictReap ==
    /\ pc = "reap"
    /\ LET r == CollectDropped(q)
           own(c) == c.queue_num
       IN  /\ q' = r.q
           /\ last' = [op |-> "collect_dropped", arg |-> <<>>, res |-> r.res]
           /\ colld' = colld \cup SeqToSet(Ids(r.res))
           /\ verdicts' = IssueOn(verdicts, r.res, "DROP", "reap", own)
    /\ pc' = "recv"
    /\ UNCHANGED <<now, nextId, okd, errd, deqd, served, parts>>

NextVerdict == VerdictRecv \/ MainNoPacket \/ VerdictSend \/ VerdictReap \/ Tick

SpecVerdict == InitMain /\ [][NextVerdict]_vars

\* every verdict issued by one of the phases by went to the queue its
\* message was received from
OnOrigin(phases) ==
    \A id \in DOMAIN verdicts :
        \A n \in 1..Len(verdicts[id]) :
            verdicts[id][n].by \in phases => verdicts[id][n].on = verdicts[id][n].from

\* C33: every verdict the ingestion loop issues for a context is sent on
\* the kernel queue the context was received from, also the DROP for a
\* context that pipeline.enqueue returned as Err after a shared FIFO
\* evicted a resident that had arrived on another queue
C33_VerdictOnOrigin == OnOrigin({"recv", "send", "reap"})

\* the verdicts of the drain and of the reap go to the queue of origin (the
\* reap has nothing to surface behind MonitorQdisc, whose dequeue flushes
\* the drops of the tree before the reap runs)
DrainAndReapOnOrigin == OnOrigin({"send", "reap"})

\* an ACCEPT of the drain was issued for a message of queue 3
DrainIssued ==
    \E a \in DOMAIN verdicts :
        verdicts[a][1].by = "send" /\ verdicts[a][1].from = 3

-----------------------------------------------------------------------------
(* The active ring of ClassDrrQdisc, under SpecClass: the class ids on the *)
(* ring against the classes whose inner qdisc still has a context to peek. *)

\* the places of class_id on the active ring
RingPlaces(class_id) == {i \in 1..Len(q.active_classes) : q.active_classes[i] = class_id}

\* the classes whose inner qdisc would answer a peek at the present time
PeekableClasses ==
    {id \in DOMAIN q.classes : Peek(q.classes[id].inner_qdisc, now).res # <<>>}

\* C34: each class id is on active_classes at most once, and every class
\* whose inner qdisc has a peekable context is on it exactly once, also
\* after an enqueue into a class whose packets all went stale while the
\* class stayed on the ring
C34_RingNoDuplicates ==
    /\ \A id \in DOMAIN q.classes : Cardinality(RingPlaces(id)) <= 1
    /\ \A id \in PeekableClasses : Cardinality(RingPlaces(id)) = 1

\* every class with a peekable context is on the ring, once or more
PeekableOnRing == \A id \in PeekableClasses : RingPlaces(id) # {}

\* both classes hold a peekable context and the ring has two places
TwoClassesOnRing == Cardinality(PeekableClasses) = 2 /\ Len(q.active_classes) = 2

-----------------------------------------------------------------------------
(* The order of one flow through SparseQdisc: a bounded FIFO as the sparse *)
(* child and a DrrQdisc as the bulk child, fed with packets of three flows *)
(* and served in any interleaving.                                         *)

MaxSparse == 6

SparseTree == SparseQdisc_new(FifoQdisc_new(10, 2), DrrQdisc_new(100, 2, 1500))

InitSparse ==
    /\ q = SparseTree
    /\ now = 0
    /\ nextId = 1
    /\ last = NoCall
    /\ okd = {}
    /\ errd = {}
    /\ deqd = {}
    /\ colld = {}
    /\ served = <<>>
    /\ pc = "calls"
    /\ verdicts = EmptyMap
    /\ cur = <<>>
    /\ todo = <<>>

SparseOrderEnqueue ==
    /\ nextId <= MaxSparse
    /\ \E key \in {FlowX, FlowY, FlowZ} :
         LET ctx == PacketContext(nextId, key, Data.pkt_len, Data.cost, 0, now,
                                  Data.is_pure_ack, Data.tcp_ack_num)
             r == Enqueue(q, ctx, now)
         IN  /\ q' = r.q
             /\ last' = [op |-> "enqueue", arg |-> <<ctx>>, res |-> r.res]
             /\ okd' = IF r.res = <<>> THEN okd \cup {ctx.id} ELSE okd
             /\ errd' = errd \cup SeqToSet(Ids(r.res))
    /\ nextId' = nextId + 1
    /\ UNCHANGED <<now, deqd, served, colld, pc, verdicts, parts>>

NextSparse == SparseOrderEnqueue \/ DoServe \/ DoCollectDropped

SpecSparse == InitSparse /\ [][NextSparse]_vars

\* C35: two contexts of one flow key enqueued into SparseQdisc and both
\* returned by dequeue are returned in the order of their enqueues, for a
\* bounded FIFO as sparse child and a DrrQdisc as bulk child, whatever the
\* other flows do and also when the full sparse FIFO drops its head
C35_SparseFlowOrder ==
    \A i, j \in 1..Len(served) :
        (served[i].key = served[j].key /\ served[i].id < served[j].id) => i < j

\* the contexts resident in the sparse child and in the bulk child
InSparse == SeqToSet(Ids(Residents(q.sparse_qdisc)))
InBulk == SeqToSet(Ids(Residents(q.bulk_qdisc)))

\* no flow has a context in the sparse child that is younger than one of
\* its contexts in the bulk child
SparseBehindBulk ==
    \A a \in SeqToSet(Residents(q.sparse_qdisc)), b \in SeqToSet(Residents(q.bulk_qdisc)) :
        a.key = b.key => a.id < b.id

\* while no enqueue was answered with Err, the order of every flow is kept
SparseOrderWithoutEviction == errd = {} => C35_SparseFlowOrder /\ SparseBehindBulk

\* a flow was served from the sparse child and then from the bulk child
SparseThenBulkServed ==
    /\ errd = {}
    /\ \E i, j \in 1..Len(served) : i < j /\ served[i].key = served[j].key
    /\ last.op = "dequeue" /\ last.res # <<>>
    /\ InSparse # {} /\ InBulk # {}

-----------------------------------------------------------------------------
(* The scheduling loop of DualFairQdisc, one child peek at a time. Every   *)
(* peek of a FifoQdisc child reads the clock anew (Instant::now in         *)
(* FifoQdisc::peek), so time may pass between the first test of            *)
(* prepare_next, the turns of its loop and the peek or dequeue that takes  *)
(* the context. pc is "calls" between two calls, "loop" inside the loop of *)
(* prepare_next and "take" after it returned true; cur holds the call in   *)
(* progress, the time it started and the turns of the loop it has taken    *)
(* (counted up to MaxTurns); last keeps the time the answered call began.  *)

MaxLoop == 2
MaxLoopTime == 180
LoopTickStep == 6 * TicksPerMs
MaxTurns == 8
LoopQuanta == {500, 1500}

LoopInputs == {In(FlowX, LaneA, Ack100), In(FlowX, LaneA, Data),
               In(FlowY, LaneB, Ack100), In(FlowY, LaneB, Data)}

InitLoop ==
    /\ \E quantum \in LoopQuanta :
         q = DualFairQdisc_new(FifoQdisc_new(10, 2), FifoQdisc_new(10, 2),
                               quantum, VipClassifier)
    /\ now = 0
    /\ nextId = 1
    /\ last = NoCall
    /\ okd = {}
    /\ errd = {}
    /\ deqd = {}
    /\ colld = {}
    /\ served = <<>>
    /\ pc = "calls"
    /\ verdicts = EmptyMap
    /\ cur = <<>>
    /\ todo = <<>>

LoopEnqueue ==
    /\ pc = "calls"
    /\ nextId <= MaxLoop
    /\ \E in \in LoopInputs :
         LET ctx == PacketContext(nextId, in.key, in.kind.pkt_len, in.kind.cost,
                                  in.queue_num, now,
                                  in.kind.is_pure_ack, in.kind.tcp_ack_num)
             r == Enqueue(q, ctx, now)
         IN  /\ q' = r.q
             /\ last' = [op |-> "enqueue", arg |-> <<ctx>>, res |-> r.res]
             /\ okd' = IF r.res = <<>> THEN okd \cup {ctx.id} ELSE okd
             /\ errd' = errd \cup SeqToSet(Ids(r.res))
    /\ nextId' = nextId + 1
    /\ UNCHANGED <<now, deqd, served, colld, pc, verdicts, parts>>

\* the clock moves, between two calls or inside one
LoopTick ==
    /\ now + LoopTickStep <= MaxLoopTime
    /\ now' = now + LoopTickStep
    /\ UNCHANGED <<q, nextId, last, okd, errd, deqd, served, colld, pc, verdicts, parts>>

\* peek or dequeue is called: the test of prepare_next on both children
LoopCall ==
    /\ pc = "calls"
    /\ \E op \in {"peek", "dequeue"} :
         LET pa == Peek(q.q_a, now)
             d1 == [q EXCEPT !.q_a = pa.q]
             pb == Peek(d1.q_b, now)
             d2 == [d1 EXCEPT !.q_b = pb.q]
         IN  IF pa.res # <<>>
             THEN /\ q' = d1
                  /\ pc' = "loop"
                  /\ cur' = <<[op |-> op, since |-> now, turns |-> 0]>>
                  /\ last' = [op |-> "call", arg |-> <<>>, res |-> <<>>]
             ELSE IF pb.res # <<>>
             THEN /\ q' = d2
                  /\ pc' = "loop"
                  /\ cur' = <<[op |-> op, since |-> now, turns |-> 0]>>
                  /\ last' = [op |-> "call", arg |-> <<>>, res |-> <<>>]
             ELSE /\ q' = [d2 EXCEPT !.deficit_a = 0, !.deficit_b = 0]
                  /\ pc' = "calls"
                  /\ cur' = <<>>
                  /\ last' = [op |-> op, arg |-> <<>>, res |-> <<>>, since |-> now]
    /\ UNCHANGED <<now, nextId, okd, errd, deqd, served, colld, verdicts, todo>>

\* one turn of the loop on lane A: p is what q_a.peek returned
LoopTurnA(d, p) ==
    LET d1 == [d EXCEPT !.q_a = p.q]
    IN  IF p.res # <<>>
        THEN IF d1.deficit_a >= p.res[1].cost
             THEN [q |-> d1, res |-> TRUE]
             ELSE [q |-> [d1 EXCEPT !.deficit_a = d1.deficit_a + d1.quantum,
                                    !.turn_a = FALSE], res |-> FALSE]
        ELSE [q |-> [d1 EXCEPT !.deficit_a = 0, !.turn_a = FALSE], res |-> FALSE]

LoopTurnB(d, p) ==
    LET d1 == [d EXCEPT !.q_b = p.q]
    IN  IF p.res # <<>>
        THEN IF d1.deficit_b >= p.res[1].cost
             THEN [q |-> d1, res |-> TRUE]
             ELSE [q |-> [d1 EXCEPT !.deficit_b = d1.deficit_b + d1.quantum,
                                    !.turn_a = TRUE], res |-> FALSE]
        ELSE [q |-> [d1 EXCEPT !.deficit_b = 0, !.turn_a = TRUE], res |-> FALSE]

\* one pass of the body of the loop
LoopTurn ==
    /\ pc = "loop"
    /\ LET r == IF q.turn_a THEN LoopTurnA(q, Peek(q.q_a, now))
                            ELSE LoopTurnB(q, Peek(q.q_b, now))
       IN  /\ q' = r.q
           /\ pc' = IF r.res THEN "take" ELSE "loop"
           /\ cur' = <<[cur[1] EXCEPT !.turns = IF @ < MaxTurns THEN @ + 1 ELSE @]>>
    /\ UNCHANGED <<now, nextId, last, okd, errd, deqd, served, colld, verdicts, todo>>

\* prepare_next returned true: peek or dequeue the lane whose turn it is
LoopTake ==
    /\ pc = "take"
    /\ LET ready == [q |-> q, res |-> TRUE]
           r == IF cur[1].op = "peek" THEN DualFairPeekReady(ready, now)
                                      ELSE DualFairDequeueReady(ready, now)
       IN  /\ q' = r.q
           /\ last' = [op |-> cur[1].op, arg |-> <<>>, res |-> r.res,
                       since |-> cur[1].since]
           /\ deqd' = IF cur[1].op = "dequeue" THEN deqd \cup SeqToSet(Ids(r.res)) ELSE deqd
    /\ pc' = "calls"
    /\ cur' = <<>>
    /\ UNCHANGED <<now, nextId, okd, errd, served, colld, verdicts, todo>>

NextLoop == LoopEnqueue \/ LoopTick \/ LoopCall \/ LoopTurn \/ LoopTake

SpecLoop == InitLoop /\ [][NextLoop]_vars

\* the thread inside a call keeps running; nothing obliges the clock to
\* stand still meanwhile
SpecLoopFair == SpecLoop /\ WF_vars(LoopTurn) /\ WF_vars(LoopTake)

\* a context that is not stale now rests in one of the lanes
FreshResident ==
    \E c \in SeqToSet(Residents(q)) : ~IsStale(c, now, q.q_a.max_latency)

\* C36: every call of peek or dequeue returns after finitely many turns of
\* the scheduling loop, also when the last resident packets go stale
\* between the child peeks of one call, and a dequeue that returns None
\* leaves no context that is not stale
C36_LoopsTerminate ==
    /\ (pc # "calls") ~> (pc = "calls")
    /\ [](last.op = "dequeue" /\ last.res = <<>> /\ pc = "calls" => ~FreshResident)

\* the first half alone: the loop of prepare_next ends
CallReturns == (pc = "loop") ~> (pc = "take")

\* the second half for the dequeues during which the clock stood still
NoneAtRestOnlyWhenAllStale ==
    (pc = "calls" /\ last.op = "dequeue" /\ last.res = <<>> /\ last.since = now)
        => ~FreshResident

\* the turns a call takes while the clock stands still: the credits the
\* costliest head needs, a turn of the other lane before each of them, and
\* the turn that finds a lane ready
TurnsAtRest == 2 * ((Data.cost + q.quantum - 1) \div q.quantum) + 2

\* a call during which the clock has not moved stays within TurnsAtRest
\* turns of the loop
LoopBoundedAtRest ==
    (pc # "calls" /\ cur[1].since = now) => cur[1].turns <= TurnsAtRest

\* a call was answered after the loop had credited both lanes, the clock
\* standing still
LoopTookTurns ==
    /\ pc = "take"
    /\ cur[1].since = now
    /\ cur[1].turns >= 4
    /\ q.deficit_a > 0 /\ q.deficit_b > 0

\* the loop turns with both lanes empty
LoopSpins ==
    /\ pc = "loop"
    /\ q.q_a.queue = <<>> /\ q.q_b.queue = <<>>
    /\ cur[1].turns = MaxTurns

-----------------------------------------------------------------------------
(* The clock of TokenBucket, under SpecBucket: what a call of can_spend or *)
(* consume does to last_update and to the tokens, the debit of an honoured *)
(* consume set apart. One tick is the threshold of refill, so a call one   *)
(* tick after last_update is a call at the threshold.                      *)

\* the tokens an honoured consume took in the step
Debited == IF last'.op = "consume" /\ last'.res[1] THEN Tokens(last'.arg[1]) ELSE 0

\* C37: last_update advances only in a refill that credits tokens, and then
\* to the present time; a refill at or below the threshold credits nothing
\* and leaves last_update where it was, so the skipped time is counted by
\* the next crediting refill, which adds rate times the time since the last
\* crediting refill, up to capacity
C37_NoTimeLost ==
    [][/\ q'.last_update <= now'
       /\ last'.op \in {"consume", "can_spend"} =>
             IF now - q.last_update > RefillThreshold
             THEN /\ q'.last_update = now
                  /\ q'.tokens + Debited
                        = Min(q.tokens + q.rate * (now - q.last_update), q.capacity)
             ELSE /\ q'.last_update = q.last_update
                  /\ q'.tokens + Debited = q.tokens]_vars

\* a call has been answered at the threshold after an earlier crediting
\* refill: last_update stays one tick behind and the bucket is not full
C37_Witness ==
    /\ last.op \in {"consume", "can_spend"}
    /\ q.last_update > 0
    /\ now - q.last_update = RefillThreshold
    /\ q.tokens < q.capacity

=============================================================================
